---- MODULE Spec2Model ----
(***************************************************************************)
(* airadar: the trend-detection engine (pkg/trend), the store operations   *)
(* it uses (internal/store), the scheduler's collect and detect-and-alert  *)
(* steps (internal/scheduler), the alert manager (pkg/alert) and the       *)
(* collect entry points (cmd/airadar, pkg/server), the collectors'         *)
(* concurrency (pkg/source) and the daemon's goroutines (runDaemon).       *)
(*                                                                         *)
(* Titles are Go strings.  A title is kept as a string in the state and    *)
(* TitleRunes gives its characters, so that the tokenizer works on the     *)
(* characters as strings.FieldsFunc does.  Scores that Go computes in      *)
(* float64 are kept as exact rationals [num, den].                         *)
(*                                                                         *)
(* The specifications share the variables:                                 *)
(*   SpecCluster     clusterItems on every short list of pool items        *)
(*   SpecCollect     collection cycles of the scheduler, the CLI and the   *)
(*                   HTTP handler on an empty store                        *)
(*   Spec            detect-and-alert cycles of the daemon on the stores   *)
(*                   that one or two collection cycles leave               *)
(*   SpecScore       scoreCluster on clusters, weights, snapshot histories *)
(*                   and call times                                        *)
(*   SpecDegenerate  detect-and-alert cycles on stores without items,      *)
(*                   without snapshots and with tokenless titles           *)
(*   SpecJaccard     jaccardSimilarity on pairs of token lists             *)
(*   SpecUpsert      UpsertItem on rows of every column                    *)
(*   SpecIdentity    the item IDs the collectors build, upserted into one  *)
(*                   store                                                 *)
(*   SpecHN          the goroutines of HackerNews.Collect                  *)
(*   SpecAlert       detect-and-alert cycles under alert thresholds        *)
(*   SpecBroadcast   Manager.Broadcast on every list of notifiers          *)
(*   SpecDaemon      the goroutines of runDaemon: the scheduler step by    *)
(*                   step, the HTTP server and the signal                  *)
(*   SpecDaemonLive  SpecDaemon under the fairness of the Go scheduler     *)
(*   SpecReddit      two concurrent Reddit.Collect calls on one collector  *)
(***************************************************************************)
EXTENDS Integers, Sequences, FiniteSets, TLC

VARIABLES
    cItems,      \* clusterItems: the item list handed to it
    cClusters,   \* clusterItems: the cluster list it returned
    cDone,       \* clusterItems: TRUE once it has returned
    cfg,         \* the configuration the engine, scheduler and alert manager are built from
    dbItems,     \* store: the items table, item ID -> row
    dbSnapshots, \* store: the score_snapshots table, in insertion order
    dbTrends,    \* store: the trends table, a set of rows
    nextTrendID, \* store: the next AUTOINCREMENT id of the trends table
    now,         \* the wall clock, in minutes
    last,        \* what the last operation did and returned
    pc,          \* concurrency: the position of every goroutine, name -> label
    mem          \* concurrency: the memory the goroutines share

pvars == <<pc, mem>>
cvars == <<cItems, cClusters, cDone, pc, mem>>
mvars == <<cfg, dbItems, dbSnapshots, dbTrends, nextTrendID, now, last>>
vars == <<cItems, cClusters, cDone, cfg, dbItems, dbSnapshots, dbTrends, nextTrendID, now, last,
          pc, mem>>

----------------------------------------------------------------------------
(* Titles and their characters *)

TitleRunes ==
    ("GPT-5 by OpenAI" :> <<"G", "P", "T", "-", "5", " ", "b", "y", " ", "O", "p", "e", "n", "A", "I">>)
    @@ ("OpenAI: new Llama" :> <<"O", "p", "e", "n", "A", "I", ":", " ", "n", "e", "w", " ", "L", "l", "a", "m", "a">>)
    @@ ("Llama & Meta" :> <<"L", "l", "a", "m", "a", " ", "&", " ", "M", "e", "t", "a">>)
    @@ ("The a of 5" :> <<"T", "h", "e", " ", "a", " ", "o", "f", " ", "5">>)
    @@ ("gpt gpt OPENAI" :> <<"g", "p", "t", " ", "g", "p", "t", " ", "O", "P", "E", "N", "A", "I">>)
    @@ ("gpt claude gemini grok" :> <<"g", "p", "t", " ", "c", "l", "a", "u", "d", "e", " ", "g", "e", "m", "i", "n", "i", " ", "g", "r", "o", "k">>)
    @@ ("aa bb cc dd ee ff" :> <<"a", "a", " ", "b", "b", " ", "c", "c", " ", "d", "d", " ", "e", "e", " ", "f", "f">>)
    @@ ("aa bb cc gg hh ii jj" :> <<"a", "a", " ", "b", "b", " ", "c", "c", " ", "g", "g", " ", "h", "h", " ", "i", "i", " ", "j", "j">>)
    @@ ("" :> <<>>)
    @@ ("LLM Release" :> <<"L", "L", "M", " ", "R", "e", "l", "e", "a", "s", "e">>)

Titles == DOMAIN TitleRunes

UpperToLower ==
    ("A" :> "a") @@ ("B" :> "b") @@ ("C" :> "c") @@ ("D" :> "d") @@ ("E" :> "e") @@ ("F" :> "f")
    @@ ("G" :> "g") @@ ("H" :> "h") @@ ("I" :> "i") @@ ("J" :> "j") @@ ("K" :> "k") @@ ("L" :> "l")
    @@ ("M" :> "m") @@ ("N" :> "n") @@ ("O" :> "o") @@ ("P" :> "p") @@ ("Q" :> "q") @@ ("R" :> "r")
    @@ ("S" :> "s") @@ ("T" :> "t") @@ ("U" :> "u") @@ ("V" :> "v") @@ ("W" :> "w") @@ ("X" :> "x")
    @@ ("Y" :> "y") @@ ("Z" :> "z")

LowerLetters ==
    {"a", "b", "c", "d", "e", "f", "g", "h", "i", "j", "k", "l", "m", "n", "o", "p", "q", "r", "s", "t", "u", "v", "w", "x", "y", "z"}

Digits ==
    {"0", "1", "2", "3", "4", "5", "6", "7", "8", "9"}

\* strings.ToLower on one character
ToLower(c) == IF c \in DOMAIN UpperToLower THEN UpperToLower[c] ELSE c

\* unicode.IsLetter, unicode.IsDigit on the characters of the titles
IsLetter(r) == r \in LowerLetters \/ r \in DOMAIN UpperToLower
IsDigit(r) == r \in Digits

stopwords ==
    {"a", "an", "the", "and", "or", "but", "in", "on", "at", "to",
     "for", "of", "with", "by", "from", "is", "are", "was", "were", "be",
     "been", "being", "have", "has", "had", "do", "does", "did", "will", "would",
     "could", "should", "may", "might", "this", "that", "these", "those", "it", "its",
     "i", "we", "you", "he", "she", "they", "my", "your", "how", "what",
     "when", "where", "why", "not", "no", "new", "just", "about", "up", "out",
     "if", "so", "can", "all", "more", "also", "than", "very"}

----------------------------------------------------------------------------
(* Bounds of the model *)

\* longest item list handed to clusterItems
MaxItems == 3

\* collection cycles start while the snapshot table is shorter than this
MaxSnapshots == 3

\* detection cycles start while the next trend id is at most this
MaxTrendID == 3


----------------------------------------------------------------------------
(* pkg/trend: tokenizer and similarity *)

\* exact rationals for Go's float64 quotients
Rat(n, d) == [num |-> n, den |-> d]
RatGeq(a, b) == a.num * b.den >= b.num * a.den
RatLess(a, b) == a.num * b.den < b.num * a.den

\* the clustering threshold 0.3 of clusterItems
SimThreshold == Rat(3, 10)

RECURSIVE Fields(_, _, _, _)
\* strings.FieldsFunc(rs, IsSeparator): the maximal runs of non-separators
Fields(rs, i, cur, acc) ==
    IF i > Len(rs)
        THEN IF cur = "" THEN acc ELSE Append(acc, cur)
    ELSE IF ~IsLetter(rs[i]) /\ ~IsDigit(rs[i])
        THEN Fields(rs, i + 1, "", IF cur = "" THEN acc ELSE Append(acc, cur))
    ELSE Fields(rs, i + 1, cur \o rs[i], acc)

\* the words of strings.ToLower(title)
Words(title) ==
    LET rs == TitleRunes[title]
        lower == [k \in 1..Len(rs) |-> ToLower(rs[k])]
    IN  Fields(lower, 1, "", <<>>)

IsSignificant(w) == Len(w) >= 2 /\ w \notin stopwords

\* the tokens of every title, computed once
TitleTokens == [t \in Titles |-> SelectSeq(Words(t), IsSignificant)]

significantTokens(title) == TitleTokens[title]

Range(s) == {s[k] : k \in 1..Len(s)}

\* a similarity that takes two empty token lists for equal
jaccardEmptyIsOne(a, b) ==
    IF Len(a) = 0 /\ Len(b) = 0 THEN Rat(1, 1)
    ELSE IF Len(a) = 0 \/ Len(b) = 0 THEN Rat(0, 1)
    ELSE LET intersection == Cardinality(Range(a) \cap Range(b))
         IN  Rat(intersection, Cardinality(Range(a) \cup Range(b)))

\* a similarity over the token lists as they are, repeats included
jaccardNoDedup(a, b) ==
    IF Len(a) = 0 \/ Len(b) = 0 THEN Rat(0, 1)
    ELSE LET intersection == Cardinality({t \in Range(a) : t \in Range(b)})
             unionSize == Len(a) + Len(b) - intersection
         IN  IF unionSize = 0 THEN Rat(0, 1) ELSE Rat(intersection, unionSize)

jaccardSimilarity(a, b) ==
    IF Len(a) = 0 \/ Len(b) = 0 THEN Rat(0, 1)
    ELSE LET setA == Range(a)
             setB == Range(b)
             intersection == Cardinality({t \in setA : t \in setB})
             unionSize == Cardinality(setA) + Cardinality(setB) - intersection
         IN  IF unionSize = 0 THEN Rat(0, 1) ELSE Rat(intersection, unionSize)

----------------------------------------------------------------------------
(* pkg/trend: clusterItems.  uf is the parent array, indexed 1..n. *)

RECURSIVE findRoot(_, _)
\* the root find(x) returns
findRoot(uf, x) == IF uf[x] /= x THEN findRoot(uf, uf[x]) ELSE x

RECURSIVE findPath(_, _)
\* the nodes find(x) visits
findPath(uf, x) == IF uf[x] /= x THEN {x} \cup findPath(uf, uf[x]) ELSE {x}

\* the parent array after find(x): every visited node points at the root
findCompress(uf, x) ==
    LET r == findRoot(uf, x)
        p == findPath(uf, x)
    IN  [k \in DOMAIN uf |-> IF k \in p THEN r ELSE uf[k]]

\* a union that links the nodes instead of their roots
unionNoFind(uf, x, y) == [uf EXCEPT ![x] = y]

\* the parent array after union(x, y)
union(uf, x, y) ==
    LET px == findRoot(uf, x)
        uf1 == findCompress(uf, x)
        py == findRoot(uf1, y)
        uf2 == findCompress(uf1, y)
    IN  IF px /= py THEN [uf2 EXCEPT ![px] = py] ELSE uf2

RECURSIVE comparePairs(_, _, _, _)
\* the double loop over i < j, from the pair (i, j) on
comparePairs(tokens, uf, i, j) ==
    LET n == Len(tokens) IN
    IF i > n THEN uf
    ELSE IF j > n THEN comparePairs(tokens, uf, i + 1, i + 2)
    ELSE comparePairs(tokens,
                      IF RatGeq(jaccardSimilarity(tokens[i], tokens[j]), SimThreshold)
                          THEN union(uf, i, j) ELSE uf,
                      i, j + 1)

RECURSIVE groupFrom(_, _, _)
\* a grouping loop that starts one index late
groupSkipFirst(uf, i, groups) == groupFrom(uf, i + 1, groups)

\* "Group by root": groups maps a root to the list of its indices
groupFrom(uf, i, groups) ==
    IF i > Len(uf) THEN groups
    ELSE LET root == findRoot(uf, i)
             uf1 == findCompress(uf, i)
             old == IF root \in DOMAIN groups THEN groups[root] ELSE <<>>
         IN  groupFrom(uf1, i + 1,
                       [r \in DOMAIN groups \cup {root} |->
                           IF r = root THEN Append(old, i) ELSE groups[r]])

groupByRoot(uf, i, groups) == groupFrom(uf, i, groups)

RECURSIVE bestOfLast(_, _, _)
\* a choice that lets a later item of the same score replace the best one
bestOfLast(its, k, best) ==
    IF k > Len(its) THEN best
    ELSE bestOfLast(its, k + 1, IF its[k].Score >= best.Score THEN its[k] ELSE best)

RECURSIVE bestOf(_, _, _)
\* the first item of the highest score among clusterItems[k..]
bestOf(its, k, best) ==
    IF k > Len(its) THEN best
    ELSE bestOf(its, k + 1, IF its[k].Score > best.Score THEN its[k] ELSE best)

RECURSIVE SumScore(_, _)
SumScore(its, k) == IF k > Len(its) THEN 0 ELSE its[k].Score + SumScore(its, k + 1)

\* the TopicCluster built from one group
buildCluster(items, indices) ==
    LET clusterItems_ == [k \in 1..Len(indices) |-> items[indices[k]]]
    IN  [Topic |-> bestOf(clusterItems_, 1, clusterItems_[1]).Title,
         Items |-> clusterItems_,
         Sources |-> {clusterItems_[k].Source : k \in 1..Len(indices)},
         TotalScore |-> SumScore(clusterItems_, 1)]

\* the groups clusterItems forms on items
groupsOf(items) ==
    LET n == Len(items)
        tokens == [k \in 1..n |-> significantTokens(items[k].Title)]
        uf == comparePairs(tokens, [k \in 1..n |-> k], 1, 2)
    IN  groupByRoot(uf, 1, <<>>)

\* The results clusterItems can return: Go ranges over the groups map in an
\* unspecified order, so every order of the clusters is possible.
clusterItems(items) ==
    LET groups == groupsOf(items)
        roots == DOMAIN groups
        m == Cardinality(roots)
    IN  { [k \in 1..m |-> buildCluster(items, groups[ord[k]])] :
            ord \in {f \in [1..m -> roots] : \A a, b \in 1..m : f[a] = f[b] => a = b} }

----------------------------------------------------------------------------
(* clusterItems as a function of its input *)

\* the items the clustering is tried on: title, source and raw score
ClusterPool ==
    { [Title |-> "GPT-5 by OpenAI", Source |-> "hackernews", Score |-> 200],
      [Title |-> "OpenAI: new Llama", Source |-> "github", Score |-> 150],
      [Title |-> "Llama & Meta", Source |-> "reddit", Score |-> 150],
      [Title |-> "The a of 5", Source |-> "rss", Score |-> 0],
      [Title |-> "gpt gpt OPENAI", Source |-> "github", Score |-> 200],
      [Title |-> "gpt claude gemini grok", Source |-> "reddit", Score |-> 10],
      [Title |-> "aa bb cc dd ee ff", Source |-> "arxiv", Score |-> 5],
      [Title |-> "aa bb cc gg hh ii jj", Source |-> "hackernews", Score |-> 5] }

\* the ID of the item at position k of an input list
PosID(k) == <<"item", k>>

MakeItem(kind, k) ==
    [ID |-> PosID(k), Source |-> kind.Source, Title |-> kind.Title, Score |-> kind.Score]

ClusterInputs ==
    UNION { { [k \in 1..n |-> MakeItem(kinds[k], k)] : kinds \in [1..n -> ClusterPool] } :
            n \in 0..MaxItems }

\* no goroutine besides the caller
IdleProcs ==
    /\ pc = <<>>
    /\ mem = <<>>

\* the store and the daemon before anything ran
IdleMain ==
    /\ cfg = [llm |-> FALSE, llmMinScore |-> 0, notifiers |-> <<>>, minScore |-> 0,
              velocityWeight |-> Rat(0, 1), crossSourceWeight |-> Rat(0, 1),
              absoluteWeight |-> Rat(0, 1)]
    /\ dbItems = <<>>
    /\ dbSnapshots = <<>>
    /\ dbTrends = {}
    /\ nextTrendID = 1
    /\ now = 0
    /\ last = [op |-> "none"]

InitCluster ==
    /\ cItems \in ClusterInputs
    /\ cClusters = <<>>
    /\ cDone = FALSE
    /\ IdleMain
    /\ IdleProcs

ClusterItems ==
    /\ ~cDone
    /\ \E res \in clusterItems(cItems) : cClusters' = res
    /\ cDone' = TRUE
    /\ UNCHANGED cItems
    /\ UNCHANGED pvars
    /\ UNCHANGED mvars

NextCluster == ClusterItems

SpecCluster == InitCluster /\ [][NextCluster]_vars

----------------------------------------------------------------------------
(* Claims about clusterItems *)

\* title-token similarity of input items i and j, as the claim states it
Similar(i, j) ==
    RatGeq(jaccardSimilarity(significantTokens(cItems[i].Title),
                             significantTokens(cItems[j].Title)), SimThreshold)

RECURSIVE ChainFrom(_)
\* the input positions joined to a position of S by a chain of similar pairs
ChainFrom(S) ==
    LET more == S \cup {j \in 1..Len(cItems) : \E i \in S : Similar(i, j) \/ Similar(j, i)}
    IN  IF more = S THEN S ELSE ChainFrom(more)

\* the clusters of the result that hold the item of input position i
ClustersOf(i) ==
    {c \in 1..Len(cClusters) :
        \E p \in 1..Len(cClusters[c].Items) : cClusters[c].Items[p].ID = cItems[i].ID}

\* C1: two input items are in the same cluster if and only if a chain of input
\* items joins them in which every consecutive pair has similarity >= 0.3.
C1_ClusterIffChain ==
    cDone =>
        \A i, j \in 1..Len(cItems) :
            (ClustersOf(i) \cap ClustersOf(j) /= {}) <=> (j \in ChainFrom({i}))

\* C1 witness: i ~ j and j ~ k but not i ~ k, and the three share a cluster
C1_Witness ==
    /\ cDone
    /\ \E i, j, k \in 1..Len(cItems) :
        /\ Similar(i, j) /\ Similar(j, k) /\ ~Similar(i, k)
        /\ ClustersOf(i) \cap ClustersOf(j) \cap ClustersOf(k) /= {}

\* the number of places of the result that hold the item of input position i
Occurrences(i) ==
    Cardinality({ <<c, p>> \in (1..Len(cClusters)) \X (1..MaxItems + 1) :
                    /\ p <= Len(cClusters[c].Items)
                    /\ cClusters[c].Items[p] = cItems[i] })

\* C2: the clusters partition the input: every input item is in exactly one
\* place of exactly one cluster, every cluster member is an input item, and no
\* cluster is empty.
C2_ClustersPartitionInput ==
    cDone =>
        /\ \A i \in 1..Len(cItems) : Occurrences(i) = 1
        /\ \A c \in 1..Len(cClusters) :
            /\ Len(cClusters[c].Items) >= 1
            /\ \A p \in 1..Len(cClusters[c].Items) :
                \E i \in 1..Len(cItems) : cClusters[c].Items[p] = cItems[i]

\* C2 witness: a result with a singleton cluster next to a cluster of several
C2_Witness ==
    /\ cDone
    /\ \E c \in 1..Len(cClusters) : Len(cClusters[c].Items) = 1
    /\ \E c \in 1..Len(cClusters) : Len(cClusters[c].Items) >= 2

----------------------------------------------------------------------------
(* internal/store: items and score snapshots *)

\* the items the collectors report: ID, source, external id and title
Catalog ==
    ("hackernews:1" :> [Source |-> "hackernews", ExternalID |-> "1",
                        Title |-> "GPT-5 by OpenAI"])
    @@ ("hackernews:2" :> [Source |-> "hackernews", ExternalID |-> "2",
                           Title |-> "Llama & Meta"])
    @@ ("github:a/b" :> [Source |-> "github", ExternalID |-> "a/b",
                         Title |-> "gpt gpt OPENAI"])

ItemIDs == DOMAIN Catalog

\* the item a collector builds at time t for catalog entry id with raw score s
CollectedItem(id, s, t) ==
    [ID |-> id, Source |-> Catalog[id].Source, ExternalID |-> Catalog[id].ExternalID,
     Title |-> Catalog[id].Title, Score |-> s, CollectedAt |-> t]

\* the columns ON CONFLICT(id) DO UPDATE SET overwrites
UpdatedColumns == {"Score", "Comments", "CollectedAt", "Tags", "Extra"}

\* an upsert that replaces the whole row
UpsertItemReplace(tbl, item, failing) ==
    IF item.ID = failing THEN [err |-> TRUE, tbl |-> tbl]
    ELSE [err |-> FALSE,
          tbl |-> [id \in DOMAIN tbl \cup {item.ID} |->
                      IF id = item.ID THEN item ELSE tbl[id]]]

\* UpsertItem: INSERT ... ON CONFLICT(id) DO UPDATE SET score, comments,
\* collected_at, tags, extra; an insert that repeats (source, external_id)
\* under a new id breaks UNIQUE.  failing is the item ID whose statement the
\* database rejects, if any.
UpsertItem(tbl, item, failing) ==
    IF item.ID = failing THEN [err |-> TRUE, tbl |-> tbl]
    ELSE IF item.ID \in DOMAIN tbl
        THEN [err |-> FALSE,
              tbl |-> [tbl EXCEPT ![item.ID] =
                          [c \in DOMAIN tbl[item.ID] |->
                              IF c \in UpdatedColumns THEN item[c]
                              ELSE tbl[item.ID][c]]]]
    ELSE IF \E id \in DOMAIN tbl : /\ tbl[id].Source = item.Source
                                   /\ tbl[id].ExternalID = item.ExternalID
        THEN [err |-> TRUE, tbl |-> tbl]
    ELSE [err |-> FALSE,
          tbl |-> [id \in DOMAIN tbl \cup {item.ID} |->
                      IF id = item.ID THEN item ELSE tbl[id]]]

RECURSIVE UpsertItems(_, _, _, _, _)
\* UpsertItems: UpsertItem for batch[k..] until one fails; stored collects the
\* IDs written
UpsertItems(tbl, batch, k, failing, stored) ==
    IF k > Len(batch) THEN [err |-> FALSE, tbl |-> tbl, stored |-> stored]
    ELSE LET r == UpsertItem(tbl, batch[k], failing)
         IN  IF r.err THEN [err |-> TRUE, tbl |-> tbl, stored |-> stored]
             ELSE UpsertItems(r.tbl, batch, k + 1, failing, stored \cup {batch[k].ID})

\* AddSnapshot: one row stamped with the store's time.Now(), which is t
AddSnapshot(snaps, itemID, score, t, failing) ==
    IF itemID = failing THEN [err |-> TRUE, snaps |-> snaps]
    ELSE [err |-> FALSE,
          snaps |-> Append(snaps, [ItemID |-> itemID, Score |-> score, CheckedAt |-> t])]

RECURSIVE recordSnapshots(_, _, _, _, _, _)
\* the loop "for i := range items { _ = AddSnapshot(...) }"; snapped lists the
\* item IDs that got a row
recordSnapshots(snaps, batch, k, t, failing, snapped) ==
    IF k > Len(batch) THEN [snaps |-> snaps, snapped |-> snapped]
    ELSE LET r == AddSnapshot(snaps, batch[k].ID, batch[k].Score, t, failing)
         IN  recordSnapshots(r.snaps, batch, k + 1, t, failing,
                             IF r.err THEN snapped ELSE Append(snapped, batch[k].ID))

----------------------------------------------------------------------------
(* Collection cycles: scheduler.collectAll, the CLI's runCollect and the     *)
(* server's handleCollect                                                    *)

\* the configured sources, in buildSources order
sources == <<"hackernews", "github">>

\* the raw scores a collector reports
ScoreValues == {10, 200}

\* what src.Collect can return: an error, or a batch of items
CollectOutcomes(src, t) ==
    IF src = "hackernews"
        THEN {[err |-> TRUE, batch |-> <<>>]} \cup
             { [err |-> FALSE,
                batch |-> <<CollectedItem("hackernews:1", s, t),
                            CollectedItem("hackernews:2", 10, t)>>] : s \in ScoreValues }
        ELSE {[err |-> TRUE, batch |-> <<>>],
              [err |-> FALSE, batch |-> <<CollectedItem("github:a/b", 200, t)>>]}

\* the store faults of one cycle: none, or the database rejects the upsert or
\* the snapshot insert of one item
CollectFaults ==
    { [kind |-> "none", id |-> "none"],
      [kind |-> "upsert", id |-> "hackernews:2"],
      [kind |-> "snapshot", id |-> "hackernews:1"] }

FaultID(fault, kind) == IF fault.kind = kind THEN fault.id ELSE "none"

RECURSIVE collectAll(_, _, _, _, _)
\* scheduler.collectAll from source k on; st carries the tables and the log
collectAll(k, outcome, fault, t, st) ==
    IF k > Len(sources) THEN st
    ELSE IF outcome[k].err THEN collectAll(k + 1, outcome, fault, t, st)
    ELSE LET up == UpsertItems(st.tbl, outcome[k].batch, 1, FaultID(fault, "upsert"), st.stored)
         IN  IF up.err
                 THEN collectAll(k + 1, outcome, fault, t,
                                 [st EXCEPT !.tbl = up.tbl, !.stored = up.stored])
             ELSE LET sn == recordSnapshots(st.snaps, outcome[k].batch, 1, t,
                                            FaultID(fault, "snapshot"), st.snapped)
                  IN  collectAll(k + 1, outcome, fault, t,
                                 [tbl |-> up.tbl, stored |-> up.stored,
                                  snaps |-> sn.snaps, snapped |-> sn.snapped])

RECURSIVE runCollect(_, _, _, _, _)
\* the source loop of the CLI's runCollect, from source k on
runCollect(k, outcome, fault, t, st) ==
    IF k > Len(sources) THEN st
    ELSE IF outcome[k].err THEN runCollect(k + 1, outcome, fault, t, st)
    ELSE LET up == UpsertItems(st.tbl, outcome[k].batch, 1, FaultID(fault, "upsert"), st.stored)
         IN  IF up.err
                 THEN runCollect(k + 1, outcome, fault, t,
                                 [st EXCEPT !.tbl = up.tbl, !.stored = up.stored])
             ELSE LET sn == recordSnapshots(st.snaps, outcome[k].batch, 1, t,
                                            FaultID(fault, "snapshot"), st.snapped)
                  IN  runCollect(k + 1, outcome, fault, t,
                                 [tbl |-> up.tbl, stored |-> up.stored,
                                  snaps |-> sn.snaps, snapped |-> sn.snapped])

RECURSIVE handleCollect(_, _, _, _, _)
\* the source loop of the server's handleCollect, from source k on
handleCollect(k, outcome, fault, t, st) ==
    IF k > Len(sources) THEN st
    ELSE IF outcome[k].err THEN handleCollect(k + 1, outcome, fault, t, st)
    ELSE LET up == UpsertItems(st.tbl, outcome[k].batch, 1, FaultID(fault, "upsert"), st.stored)
         IN  handleCollect(k + 1, outcome, fault, t,
                           [st EXCEPT !.tbl = up.tbl, !.stored = up.stored])

\* a cycle's working state on the tables tbl and snaps
CollectStart(tbl, snaps) == [tbl |-> tbl, stored |-> {}, snaps |-> snaps, snapped |-> <<>>]

\* what the sources can return in one cycle at time t, source by source
CollectInputs(t) ==
    { o \in [1..Len(sources) ->
                UNION {CollectOutcomes(sources[k], t) : k \in 1..Len(sources)}] :
        \A k \in 1..Len(sources) : o[k] \in CollectOutcomes(sources[k], t) }

\* the state after a collection cycle that ended in st
Collected(entry, st) ==
    /\ dbItems' = st.tbl
    /\ dbSnapshots' = st.snaps
    /\ last' = [op |-> "collect", entry |-> entry, stored |-> st.stored,
                snapped |-> st.snapped]
    /\ UNCHANGED <<cfg, dbTrends, nextTrendID, now>>
    /\ UNCHANGED cvars

SchedulerCollect ==
    /\ Len(dbSnapshots) < MaxSnapshots
    /\ \E outcome \in CollectInputs(now), fault \in CollectFaults :
        Collected("scheduler", collectAll(1, outcome, fault, now, CollectStart(dbItems, dbSnapshots)))

CliCollect ==
    /\ Len(dbSnapshots) < MaxSnapshots
    /\ \E outcome \in CollectInputs(now), fault \in CollectFaults :
        Collected("cli", runCollect(1, outcome, fault, now, CollectStart(dbItems, dbSnapshots)))

HttpCollect ==
    /\ Len(dbSnapshots) < MaxSnapshots
    /\ \E outcome \in CollectInputs(now), fault \in CollectFaults :
        Collected("http", handleCollect(1, outcome, fault, now, CollectStart(dbItems, dbSnapshots)))

\* the instants (minutes) at which the operations run: 5 hours apart, and one
\* more than 24 hours after the others
Instants == {0, 300, 600, 2100}

\* the ticker fires: time has passed until a later instant
Tick ==
    /\ \E t \in Instants :
        /\ t > now
        /\ now' = t
    /\ last' = [op |-> "tick"]
    /\ UNCHANGED <<cfg, dbItems, dbSnapshots, dbTrends, nextTrendID>>
    /\ UNCHANGED cvars

----------------------------------------------------------------------------
(* pkg/trend: scoring.  float64 values are exact rationals in lowest terms. *)

RECURSIVE Gcd(_, _)
Gcd(a, b) == IF b = 0 THEN a ELSE Gcd(b, a % b)

Abs(n) == IF n < 0 THEN -n ELSE n

RatNorm(n, d) ==
    LET g == Gcd(Abs(n), d) IN IF g = 0 THEN Rat(0, 1) ELSE Rat(n \div g, d \div g)

RatAdd(a, b) == RatNorm(a.num * b.den + b.num * a.den, a.den * b.den)
RatMul(a, b) == RatNorm(a.num * b.num, a.den * b.den)
RatInt(n) == Rat(n, 1)

\* a NewEngine whose default weights for velocity and cross-source are swapped
NewEngineSwapped(velocityW, crossSourceW, absoluteW) ==
    IF RatAdd(RatAdd(velocityW, crossSourceW), absoluteW).num = 0
        THEN [velocityWeight |-> Rat(5, 10), crossSourceWeight |-> Rat(3, 10),
              absoluteWeight |-> Rat(2, 10)]
        ELSE [velocityWeight |-> velocityW, crossSourceWeight |-> crossSourceW,
              absoluteWeight |-> absoluteW]

\* the weights NewEngine keeps: the configured ones, or 0.3 / 0.5 / 0.2 when
\* the configured weights sum to zero
NewEngine(velocityW, crossSourceW, absoluteW) ==
    IF RatAdd(RatAdd(velocityW, crossSourceW), absoluteW).num = 0
        THEN [velocityWeight |-> Rat(3, 10), crossSourceWeight |-> Rat(5, 10),
              absoluteWeight |-> Rat(2, 10)]
        ELSE [velocityWeight |-> velocityW, crossSourceWeight |-> crossSourceW,
              absoluteWeight |-> absoluteW]

\* the velocity lookback of itemVelocity: 6 hours, in minutes
VelocityWindow == 360

\* the items lookback of Detect: 24 hours, in minutes
ItemsWindow == 1440

\* GetSnapshots: the rows of one item since a time, ORDER BY checked_at.  The
\* table is in insertion order and the clock never runs backwards, so the
\* insertion order is the checked_at order.
GetSnapshots(snaps, itemID, since, failing) ==
    IF itemID = failing THEN [err |-> TRUE, snaps |-> <<>>]
    ELSE [err |-> FALSE,
          snaps |-> SelectSeq(snaps, LAMBDA r : r.ItemID = itemID /\ r.CheckedAt >= since)]

\* an itemVelocity that floors a falling score at 0
itemVelocityFloored(item, snaps, failing) ==
    LET got == GetSnapshots(snaps, item.ID, now - VelocityWindow, failing)
        n == Len(got.snaps)
    IN  IF got.err \/ n < 2 THEN Rat(0, 1)
        ELSE LET first == got.snaps[1]
                 lastSnap == got.snaps[n]
                 minutes == lastSnap.CheckedAt - first.CheckedAt
             IN  IF minutes * 10 < 60 \/ lastSnap.Score < first.Score THEN Rat(0, 1)
                 ELSE RatNorm((lastSnap.Score - first.Score) * 60, minutes)

\* an itemVelocity that measures the hours from the first snapshot until now
itemVelocityToNow(item, snaps, failing) ==
    LET got == GetSnapshots(snaps, item.ID, now - VelocityWindow, failing)
        n == Len(got.snaps)
    IN  IF got.err \/ n < 2 THEN Rat(0, 1)
        ELSE LET first == got.snaps[1]
                 lastSnap == got.snaps[n]
                 minutes == now - first.CheckedAt
             IN  IF minutes * 10 < 60 THEN Rat(0, 1)
                 ELSE RatNorm((lastSnap.Score - first.Score) * 60, minutes)

\* itemVelocity: points per hour between the first and the last snapshot
itemVelocity(item, snaps, failing) ==
    LET got == GetSnapshots(snaps, item.ID, now - VelocityWindow, failing)
        n == Len(got.snaps)
    IN  IF got.err \/ n < 2 THEN Rat(0, 1)
        ELSE LET first == got.snaps[1]
                 lastSnap == got.snaps[n]
                 minutes == lastSnap.CheckedAt - first.CheckedAt
             IN  \* hours < 0.1
                 IF minutes * 10 < 60 THEN Rat(0, 1)
                 ELSE RatNorm((lastSnap.Score - first.Score) * 60, minutes)

RECURSIVE maxVelocityNoFloor(_, _, _, _, _)
\* a velocity loop that starts from the first item's velocity instead of 0
maxVelocityNoFloor(its, k, snaps, failing, velocityScore) ==
    IF k > Len(its) THEN velocityScore
    ELSE LET v == itemVelocity(its[k], snaps, failing)
         IN  maxVelocityNoFloor(its, k + 1, snaps, failing,
                                IF k = 1 \/ RatLess(velocityScore, v)
                                    THEN v ELSE velocityScore)

RECURSIVE maxVelocity(_, _, _, _, _)
\* the loop "if v > velocityScore { velocityScore = v }" from item k on
maxVelocity(its, k, snaps, failing, velocityScore) ==
    IF k > Len(its) THEN velocityScore
    ELSE LET v == itemVelocity(its[k], snaps, failing)
         IN  maxVelocity(its, k + 1, snaps, failing,
                         IF RatLess(velocityScore, v) THEN v ELSE velocityScore)

\* an absolute component on the integer quotient of the mean
absoluteScoreIntMean(cluster) ==
    IF cluster.TotalScore > 0
        THEN LET avg == RatInt(cluster.TotalScore \div Len(cluster.Items))
             IN  IF RatLess(RatInt(1000), avg) THEN RatInt(100)
                 ELSE IF RatLess(RatInt(100), avg)
                     THEN RatAdd(RatInt(60), RatMul(RatAdd(avg, RatInt(-100)), Rat(40, 900)))
                 ELSE IF RatLess(RatInt(10), avg)
                     THEN RatAdd(RatInt(20), RatMul(RatAdd(avg, RatInt(-10)), Rat(40, 90)))
                 ELSE RatMul(avg, Rat(20, 10))
        ELSE Rat(0, 1)

\* the absolute component of scoreCluster
absoluteScore(cluster) ==
    IF cluster.TotalScore > 0
        THEN LET avg == RatNorm(cluster.TotalScore, Len(cluster.Items))
             IN  IF RatLess(RatInt(1000), avg) THEN RatInt(100)
                 ELSE IF RatLess(RatInt(100), avg)
                     THEN RatAdd(RatInt(60), RatMul(RatAdd(avg, RatInt(-100)), Rat(40, 900)))
                 ELSE IF RatLess(RatInt(10), avg)
                     THEN RatAdd(RatInt(20), RatMul(RatAdd(avg, RatInt(-10)), Rat(40, 90)))
                 ELSE RatMul(avg, Rat(20, 10))
        ELSE Rat(0, 1)

\* a scoreCluster without the cap of the cross-source component
scoreClusterNoCrossCap(e, cluster, snaps, failing) ==
    LET crossScore == 20 * Cardinality(cluster.Sources)
        v == maxVelocity(cluster.Items, 1, snaps, failing, Rat(0, 1))
        velocityScore == IF RatLess(RatInt(100), v) THEN RatInt(100) ELSE v
    IN  RatAdd(RatAdd(RatMul(RatInt(crossScore), e.crossSourceWeight),
                      RatMul(velocityScore, e.velocityWeight)),
               RatMul(absoluteScore(cluster), e.absoluteWeight))

\* scoreCluster with the engine's weights e
scoreCluster(e, cluster, snaps, failing) ==
    LET cross == 20 * Cardinality(cluster.Sources)
        crossScore == IF cross > 100 THEN 100 ELSE cross
        v == maxVelocity(cluster.Items, 1, snaps, failing, Rat(0, 1))
        velocityScore == IF RatLess(RatInt(100), v) THEN RatInt(100) ELSE v
    IN  RatAdd(RatAdd(RatMul(RatInt(crossScore), e.crossSourceWeight),
                      RatMul(velocityScore, e.velocityWeight)),
               RatMul(absoluteScore(cluster), e.absoluteWeight))

----------------------------------------------------------------------------
(* pkg/trend: the LLM evaluator *)

\* the threshold NewLLMEvaluator keeps: 6 unless a positive one is configured
NewLLMEvaluator(minScore) == IF minScore <= 0 THEN 6 ELSE minScore

\* the records a provider may put in its JSON array
LLMResults ==
    { [ID |-> "hackernews:1", Score |-> 9, Topic |-> "LLM Release"],
      [ID |-> "github:a/b", Score |-> 6, Topic |-> ""],
      [ID |-> "hackernews:2", Score |-> 5, Topic |-> "LLM Release"],
      [ID |-> "hackernews:1", Score |-> 7, Topic |-> "Llama & Meta"] }

\* longest JSON array of a reply
MaxResults == 2

\* What the provider call of one EvaluateItems can come to:
\*   "build"    http.NewRequestWithContext fails, nothing is sent
\*   "network"  client.Do fails
\*   "status"   the response status is not 200
\*   "payload"  the body, the choices or the JSON array cannot be decoded
\*   "ok"       the content parses to the array results
LLMReplies ==
    {[kind |-> k, results |-> <<>>] : k \in {"build", "network", "status", "payload"}}
    \cup UNION { { [kind |-> "ok", results |-> r] :
                     r \in {f \in [1..n -> LLMResults] :
                              \A a, b \in 1..n : f[a] = f[b] => a = b} } :
                 n \in 0..MaxResults }

\* an EvaluateItems that returns every parsed result, whatever its score
EvaluateItemsNoFilter(minScore, its, reply) ==
    IF Len(its) = 0 THEN [results |-> <<>>, err |-> FALSE, requests |-> 0]
    ELSE IF reply.kind = "build" THEN [results |-> <<>>, err |-> TRUE, requests |-> 0]
    ELSE IF reply.kind /= "ok" THEN [results |-> <<>>, err |-> TRUE, requests |-> 1]
    ELSE [results |-> reply.results, err |-> FALSE, requests |-> 1]

\* an EvaluateItems that calls the provider once per item
EvaluateItemsPerItem(minScore, its, reply) ==
    IF Len(its) = 0 THEN [results |-> <<>>, err |-> FALSE, requests |-> 0]
    ELSE IF reply.kind = "build" THEN [results |-> <<>>, err |-> TRUE, requests |-> 0]
    ELSE IF reply.kind /= "ok" THEN [results |-> <<>>, err |-> TRUE, requests |-> Len(its)]
    ELSE [results |-> SelectSeq(reply.results, LAMBDA r : r.Score >= minScore),
          err |-> FALSE, requests |-> Len(its)]

\* EvaluateItems: one provider call for the whole batch, then the results of
\* score >= minScore; requests counts the calls of client.Do
EvaluateItems(minScore, its, reply) ==
    IF Len(its) = 0 THEN [results |-> <<>>, err |-> FALSE, requests |-> 0]
    ELSE IF reply.kind = "build" THEN [results |-> <<>>, err |-> TRUE, requests |-> 0]
    ELSE IF reply.kind /= "ok" THEN [results |-> <<>>, err |-> TRUE, requests |-> 1]
    ELSE [results |-> SelectSeq(reply.results, LAMBDA r : r.Score >= minScore),
          err |-> FALSE, requests |-> 1]

RECURSIVE resultMapOf(_, _, _)
\* "resultMap[r.ID] = r" over results[k..]: the last result of an ID stays
resultMapOf(results, k, m) ==
    IF k > Len(results) THEN m
    ELSE resultMapOf(results, k + 1,
                     [id \in DOMAIN m \cup {results[k].ID} |->
                         IF id = results[k].ID THEN results[k] ELSE m[id]])

\* a relabel that takes the topic even when it is empty
relabelAlways(item, r) == [item EXCEPT !.Title = r.Topic]

\* the title llmFilter gives a kept item: the topic of its result, when the
\* topic is not empty
relabel(item, r) == IF r.Topic /= "" THEN [item EXCEPT !.Title = r.Topic] ELSE item

RECURSIVE keepEvaluated(_, _, _, _)
\* the loop of llmFilter over items[k..]
keepEvaluated(its, k, resultMap, filtered) ==
    IF k > Len(its) THEN filtered
    ELSE keepEvaluated(its, k + 1, resultMap,
                       IF its[k].ID \in DOMAIN resultMap
                           THEN Append(filtered, relabel(its[k], resultMap[its[k].ID]))
                           ELSE filtered)

\* an llmFilter that returns no items with the error
llmFilterDropsOnError(minScore, its, reply) ==
    LET ev == EvaluateItems(minScore, its, reply)
    IN  IF ev.err \/ Len(ev.results) = 0
            THEN [items |-> <<>>, err |-> ev.err, requests |-> ev.requests]
        ELSE [items |-> keepEvaluated(its, 1, resultMapOf(ev.results, 1, <<>>), <<>>),
              err |-> FALSE, requests |-> ev.requests]

\* llmFilter: the items to go on with, the error and the requests sent
llmFilter(minScore, its, reply) ==
    LET ev == EvaluateItems(minScore, its, reply)
    IN  IF ev.err THEN [items |-> its, err |-> TRUE, requests |-> ev.requests]
        ELSE IF Len(ev.results) = 0
            THEN [items |-> <<>>, err |-> FALSE, requests |-> ev.requests]
        ELSE [items |-> keepEvaluated(its, 1, resultMapOf(ev.results, 1, <<>>), <<>>),
              err |-> FALSE, requests |-> ev.requests]

----------------------------------------------------------------------------
(* internal/store: listing items, the trends table *)

\* the orders of a set of item IDs by collected_at descending; rows of equal
\* collected_at come in any order
ByCollectedAtDesc(tbl, ids) ==
    LET n == Cardinality(ids)
    IN  { ord \in [1..n -> ids] :
            /\ \A a, b \in 1..n : ord[a] = ord[b] => a = b
            /\ \A a \in 1..n - 1 : tbl[ord[a]].CollectedAt >= tbl[ord[a + 1]].CollectedAt }

\* ListItems(Since: since): the lists the query can return (the limit of 1000
\* rows is above every table of the model)
ListItems(tbl, since) ==
    LET ids == {id \in DOMAIN tbl : tbl[id].CollectedAt >= since}
    IN  { [k \in 1..Len(ord) |-> tbl[ord[k]]] : ord \in ByCollectedAtDesc(tbl, ids) }

\* ClearTrends: DELETE FROM trends
ClearTrends(tbl) == {}

\* an UpsertTrend on a table without AUTOINCREMENT: an insert takes the id
\* after the largest one in the table, which a cleared table gives out again
UpsertTrendReusingIDs(tbl, nextID, t, failing) ==
    IF failing THEN [err |-> TRUE, tbl |-> tbl, nextID |-> nextID, t |-> t]
    ELSE LET free == CHOOSE id \in 1..(Cardinality(tbl) + 1) :
                        /\ \A r \in tbl : r.ID < id
                        /\ id = 1 \/ \E r \in tbl : r.ID = id - 1
             row == [t EXCEPT !.ID = IF t.ID > 0 THEN t.ID ELSE free]
         IN  [err |-> FALSE, tbl |-> {r \in tbl : r.ID /= row.ID} \cup {row},
              nextID |-> IF nextID > row.ID THEN nextID ELSE row.ID + 1, t |-> row]

\* UpsertTrend: UPDATE the row of t.ID when t.ID > 0, else INSERT a row under
\* the next AUTOINCREMENT id and set t.ID
UpsertTrend(tbl, nextID, t, failing) ==
    IF failing THEN [err |-> TRUE, tbl |-> tbl, nextID |-> nextID, t |-> t]
    ELSE IF t.ID > 0
        THEN [err |-> FALSE,
              tbl |-> { IF row.ID = t.ID
                            THEN [t EXCEPT !.FirstSeen = row.FirstSeen]
                            ELSE row : row \in tbl },
              nextID |-> nextID, t |-> t]
    ELSE LET row == [t EXCEPT !.ID = nextID]
         IN  [err |-> FALSE, tbl |-> tbl \cup {row}, nextID |-> nextID + 1, t |-> row]

\* MarkAlerted: UPDATE trends SET alerted = 1 WHERE id = trendID
MarkAlerted(tbl, trendID, failing) ==
    IF failing THEN [err |-> TRUE, tbl |-> tbl]
    ELSE [err |-> FALSE,
          tbl |-> { IF row.ID = trendID THEN [row EXCEPT !.Alerted = TRUE] ELSE row :
                      row \in tbl }]

----------------------------------------------------------------------------
(* pkg/trend: Engine.Detect *)

\* the store faults of one detection cycle: none, or the database rejects
\* ListItems, ClearTrends, the GetSnapshots of one item, the UpsertTrend of the
\* cluster at one position, or MarkAlerted
DetectFaults ==
    {[kind |-> k, id |-> "none", pos |-> 0] : k \in {"none", "list", "clear", "mark"}}
    \cup {[kind |-> "snapshot", id |-> "hackernews:1", pos |-> 0]}
    \cup {[kind |-> "trend", id |-> "none", pos |-> p] : p \in 1..2}

NoReply == [kind |-> "none", results |-> <<>>]

\* a trend that skips the "continue" after a failed upsert
keepTrendAlways(out, up) == Append(out, up.t)

\* "if err := UpsertTrend(...); err != nil { ...; continue }; trends = append(trends, trend)"
keepTrend(out, up) == IF up.err THEN out ELSE Append(out, up.t)

RECURSIVE scoreAndStore(_, _, _, _, _)
\* the loop of Detect over clusters[k..]: score the cluster, build the trend,
\* upsert it, and append it to the result unless the upsert failed.  st.failed
\* collects the store operations that failed on the way.
scoreAndStore(e, clusters, k, fault, st) ==
    IF k > Len(clusters) THEN st
    ELSE LET cluster == clusters[k]
             snapshotFails == \E p \in 1..Len(cluster.Items) :
                                  cluster.Items[p].ID = FaultID(fault, "snapshot")
             trend == [ID |-> 0,
                       Topic |-> cluster.Topic,
                       Score |-> scoreCluster(e, cluster, dbSnapshots,
                                              FaultID(fault, "snapshot")),
                       SourceCount |-> Cardinality(cluster.Sources),
                       ItemIDs |-> [p \in 1..Len(cluster.Items) |-> cluster.Items[p].ID],
                       FirstSeen |-> now,
                       LastUpdated |-> now,
                       Alerted |-> FALSE]
             up == UpsertTrend(st.tbl, st.nextID, trend,
                               fault.kind = "trend" /\ fault.pos = k)
         IN  scoreAndStore(e, clusters, k + 1, fault,
                           [tbl |-> up.tbl, nextID |-> up.nextID,
                            trends |-> keepTrend(st.trends, up),
                            failed |-> st.failed
                                       \cup (IF snapshotFails THEN {"snapshot"} ELSE {})
                                       \cup (IF up.err THEN {"trend"} ELSE {})])

\* a Detect that returns the trends in the order they were scored
sortNone(trs) == {trs}

\* sort.Slice by score descending: every order of trs in which no trend comes
\* before one of a higher score (the sort is not stable)
sortByScoreDesc(trs) ==
    LET n == Len(trs)
    IN  { [k \in 1..n |-> trs[p[k]]] :
            p \in { q \in [1..n -> 1..n] :
                      /\ \A a, b \in 1..n : q[a] = q[b] => a = b
                      /\ \A a \in 1..n - 1 :
                            ~RatLess(trs[q[a]].Score, trs[q[a + 1]].Score) } }

\* What a Detect that stopped before the evaluator returns and leaves behind:
\*   err, trends    the returned error ("none" for nil) and trend list
\*   tbl, nextID    the trends table and its AUTOINCREMENT counter
\*   failed         the store operations that failed
\*   listed         the items ListItems returned
\*   evaluated, llmErr, requests
\*                  whether llmFilter ran, whether it returned an error, and
\*                  the HTTP requests it sent
\*   clustered, clusterInput, clusters
\*                  whether clusterItems ran, on which items, and the number
\*                  of clusters it returned
Stopped(err, listed, tbl, failed) ==
    [err |-> err, trends |-> <<>>, tbl |-> tbl, nextID |-> nextTrendID,
     failed |-> failed, listed |-> listed,
     evaluated |-> FALSE, llmErr |-> FALSE, requests |-> 0,
     clustered |-> FALSE, clusterInput |-> <<>>, clusters |-> 0]

NotEvaluated == [err |-> FALSE, requests |-> 0, items |-> <<>>]

\* Detect on the list ListItems returned, with the engine's weights e, its
\* evaluator (llmOn: e.llm /= nil, llmMin: its threshold), the cycle's store
\* fault and the provider's reply: the set of outcomes
Detect(e, llmOn, llmMin, listed, fault, reply) ==
    IF fault.kind = "list" THEN {Stopped("list", <<>>, dbTrends, {"list"})}
    ELSE IF Len(listed) = 0 THEN {Stopped("none", listed, dbTrends, {})}
    ELSE IF fault.kind = "clear" THEN {Stopped("clear", listed, dbTrends, {"clear"})}
    ELSE
        LET cleared == ClearTrends(dbTrends)
            f == IF llmOn THEN llmFilter(llmMin, listed, reply) ELSE NotEvaluated
            its == IF llmOn THEN f.items ELSE listed
            filtered == [Stopped("none", listed, cleared, {}) EXCEPT
                            !.evaluated = llmOn, !.llmErr = f.err,
                            !.requests = f.requests]
        IN  IF llmOn /\ Len(its) = 0 THEN {filtered}
            ELSE UNION {
                    LET st == scoreAndStore(e, clusters, 1, fault,
                                            [tbl |-> cleared, nextID |-> nextTrendID,
                                             trends |-> <<>>, failed |-> {}])
                    IN  { [filtered EXCEPT !.trends = sorted, !.tbl = st.tbl,
                                           !.nextID = st.nextID, !.failed = st.failed,
                                           !.clustered = TRUE, !.clusterInput = its,
                                           !.clusters = Len(clusters)] :
                            sorted \in sortByScoreDesc(st.trends) } :
                    clusters \in clusterItems(its) }

----------------------------------------------------------------------------
(* pkg/alert: Manager; internal/scheduler: detectAndAlert *)

\* the threshold scheduler.New keeps: 30 unless one is configured
NewScheduler(minScore) == IF minScore = 0 THEN 30 ELSE minScore

HasNotifiers(notifiers) == Len(notifiers) > 0

\* the errors Broadcast collects: fmt.Errorf("%s: %w", notifier.Name(), err)
\* for every notifier whose Send failed, in the order of the calls
sendErrors(notifiers, down) ==
    [k \in 1..Len(SelectSeq(notifiers, LAMBDA n : n \in down)) |->
        [name |-> SelectSeq(notifiers, LAMBDA n : n \in down)[k], wraps |-> "send"]]

\* a Broadcast that reports an error only when every Send failed
BroadcastAnyOk(notifiers, down, trendID) ==
    [sends |-> [k \in 1..Len(notifiers) |->
                   [trend |-> trendID, notifier |-> notifiers[k],
                    ok |-> notifiers[k] \notin down]],
     errs |-> IF \A k \in 1..Len(notifiers) : notifiers[k] \in down
                  THEN sendErrors(notifiers, down) ELSE <<>>,
     err |-> \A k \in 1..Len(notifiers) : notifiers[k] \in down]

\* a Broadcast that returns at the first Send that fails
BroadcastUntilFailure(notifiers, down, trendID) ==
    LET failing == {k \in 1..Len(notifiers) : notifiers[k] \in down}
        n == IF failing = {} THEN Len(notifiers)
             ELSE CHOOSE k \in failing : \A j \in failing : k <= j
    IN  [sends |-> [k \in 1..n |->
                       [trend |-> trendID, notifier |-> notifiers[k],
                        ok |-> notifiers[k] \notin down]],
         errs |-> IF failing = {} THEN <<>>
                  ELSE <<[name |-> notifiers[n], wraps |-> "send"]>>,
         err |-> failing /= {}]

\* Broadcast: Send on every notifier in order; down are the notifiers whose
\* Send fails.  The result is errors.Join(errs...): nil (err = FALSE) when
\* errs is empty, else an error that wraps every element of errs.
Broadcast(notifiers, down, trendID) ==
    [sends |-> [k \in 1..Len(notifiers) |->
                   [trend |-> trendID, notifier |-> notifiers[k],
                    ok |-> notifiers[k] \notin down]],
     errs |-> sendErrors(notifiers, down),
     err |-> Len(sendErrors(notifiers, down)) > 0]

RECURSIVE alertLoopStrict(_, _, _, _, _, _, _)
\* an alert loop that also skips a trend whose score equals minScore
alertLoopStrict(trs, k, minScore, notifiers, down, markFails, st) ==
    IF k > Len(trs) THEN st
    ELSE IF ~RatLess(RatInt(minScore), trs[k].Score) \/ trs[k].Alerted
        THEN alertLoopStrict(trs, k + 1, minScore, notifiers, down, markFails, st)
    ELSE LET b == Broadcast(notifiers, down, trs[k].ID)
             sent == [st EXCEPT !.sends = st.sends \o b.sends]
         IN  IF b.err
                 THEN alertLoopStrict(trs, k + 1, minScore, notifiers, down, markFails, sent)
             ELSE alertLoopStrict(trs, k + 1, minScore, notifiers, down, markFails,
                                  [sent EXCEPT
                                      !.tbl = MarkAlerted(sent.tbl, trs[k].ID, markFails).tbl,
                                      !.marked = sent.marked \cup {trs[k].ID}])

RECURSIVE alertLoop(_, _, _, _, _, _, _)
\* the loop of detectAndAlert over trends[k..]: skip a trend below minScore or
\* already alerted, broadcast, and mark the trend alerted unless the
\* broadcast returned an error
alertLoop(trs, k, minScore, notifiers, down, markFails, st) ==
    IF k > Len(trs) THEN st
    ELSE IF RatLess(trs[k].Score, RatInt(minScore)) \/ trs[k].Alerted
        THEN alertLoop(trs, k + 1, minScore, notifiers, down, markFails, st)
    ELSE LET b == Broadcast(notifiers, down, trs[k].ID)
             sent == [st EXCEPT !.sends = st.sends \o b.sends]
         IN  IF b.err
                 THEN alertLoop(trs, k + 1, minScore, notifiers, down, markFails, sent)
             ELSE alertLoop(trs, k + 1, minScore, notifiers, down, markFails,
                            [sent EXCEPT
                                !.tbl = MarkAlerted(sent.tbl, trs[k].ID, markFails).tbl,
                                !.marked = sent.marked \cup {trs[k].ID}])

\* detectAndAlert after Detect returned d: nothing on an error or without
\* notifiers, else the alert loop
detectAndAlert(d, minScore, notifiers, down, markFails) ==
    LET st == [tbl |-> d.tbl, sends |-> <<>>, marked |-> {}]
    IN  IF d.err /= "none" \/ ~HasNotifiers(notifiers) THEN st
        ELSE alertLoop(d.trends, 1, minScore, notifiers, down, markFails, st)

\* most failures of the environment within one cycle: a store fault, a failed
\* provider call and an outage of notifiers count one each
MaxFaults == 1

FaultCount(fault, reply, down) ==
    (IF fault.kind = "none" THEN 0 ELSE 1)
    + (IF reply.kind \in {"none", "ok"} THEN 0 ELSE 1)
    + (IF down = {} THEN 0 ELSE 1)

\* the sets of failing notifiers after outcome d; when nothing is to be sent
\* the choice makes no difference
DownChoices(d, minScore, notifiers, fault, reply) ==
    IF /\ d.err = "none"
       /\ \E k \in 1..Len(d.trends) : ~RatLess(d.trends[k].Score, RatInt(minScore))
        THEN {down \in SUBSET Range(notifiers) : FaultCount(fault, reply, down) <= MaxFaults}
        ELSE {{}}

\* the provider's replies for the list ListItems returned; when the provider
\* is not called there is none
ReplyChoices(llmOn, listed, fault) ==
    IF llmOn /\ Len(listed) > 0 /\ fault.kind \notin {"list", "clear"}
        THEN {reply \in LLMReplies : FaultCount(fault, reply, {}) <= MaxFaults}
        ELSE {NoReply}

\* one run of the scheduler's detectAndAlert; the ticker separates two runs
DetectAndAlert ==
    /\ last.op /= "detect"
    /\ nextTrendID <= MaxTrendID
    /\ \E listed \in ListItems(dbItems, now - ItemsWindow), fault \in DetectFaults :
        \E reply \in ReplyChoices(cfg.llm, listed, fault) :
            \E d \in Detect(NewEngine(cfg.velocityWeight, cfg.crossSourceWeight,
                                      cfg.absoluteWeight),
                            cfg.llm, NewLLMEvaluator(cfg.llmMinScore),
                            listed, fault, reply) :
                \E down \in DownChoices(d, NewScheduler(cfg.minScore), cfg.notifiers,
                                       fault, reply) :
                    LET a == detectAndAlert(d, NewScheduler(cfg.minScore), cfg.notifiers,
                                            down, fault.kind = "mark")
                    IN  /\ dbTrends' = a.tbl
                        /\ nextTrendID' = d.nextID
                        /\ last' = [op |-> "detect", err |-> d.err, trends |-> d.trends,
                                    failed |-> d.failed, listed |-> d.listed,
                                    evaluated |-> d.evaluated, llmErr |-> d.llmErr,
                                    requests |-> d.requests, reply |-> reply,
                                    clustered |-> d.clustered,
                                    clusterInput |-> d.clusterInput,
                                    clusters |-> d.clusters,
                                    sends |-> a.sends, marked |-> a.marked,
                                    before |-> dbTrends]
    /\ UNCHANGED <<cfg, dbItems, dbSnapshots, now>>
    /\ UNCHANGED cvars

----------------------------------------------------------------------------
(* The daemon and the CLI on one store *)

\* the configurations the model is run under
Configs ==
    { [llm |-> l.on, llmMinScore |-> l.min, notifiers |-> n, minScore |-> 0,
       velocityWeight |-> Rat(0, 1), crossSourceWeight |-> Rat(0, 1),
       absoluteWeight |-> Rat(0, 1)] :
        l \in {[on |-> FALSE, min |-> 0], [on |-> TRUE, min |-> 0], [on |-> TRUE, min |-> 8]},
        n \in {<<"slack", "discord">>} }

IdleCluster ==
    /\ cItems = <<>>
    /\ cClusters = <<>>
    /\ cDone = FALSE
    /\ IdleProcs

NoFault == [kind |-> "none", id |-> "none"]

\* the stores the scheduler's collection leaves: after one cycle at minute 0,
\* and after a second cycle at minute 300
StoresAfterOne ==
    { collectAll(1, o, NoFault, 0, CollectStart(<<>>, <<>>)) : o \in CollectInputs(0) }

StoresAfterTwo ==
    { collectAll(1, o, NoFault, 300, CollectStart(st.tbl, st.snaps)) :
        st \in StoresAfterOne, o \in CollectInputs(300) }

\* Detection cycles of the daemon on a store that collection has filled
Init ==
    /\ cfg \in Configs
    /\ \E st \in StoresAfterOne \cup StoresAfterTwo :
        /\ dbItems = st.tbl
        /\ dbSnapshots = st.snaps
    /\ dbTrends = {}
    /\ nextTrendID = 1
    /\ now = 300
    /\ last = [op |-> "none"]
    /\ IdleCluster

Next ==
    \/ DetectAndAlert
    \/ Tick

Spec == Init /\ [][Next]_vars

\* Collection cycles of the three entry points on an empty store
InitCollect ==
    /\ IdleMain
    /\ IdleCluster

NextCollect ==
    \/ SchedulerCollect
    \/ CliCollect
    \/ HttpCollect
    \/ Tick

SpecCollect == InitCollect /\ [][NextCollect]_vars

----------------------------------------------------------------------------
(* scoreCluster as a function of the cluster, the engine's weights, the      *)
(* snapshots table and the clock                                             *)

\* the rows (item, score, minute) of the snapshot histories the scoring is
\* tried on; the two items with snapshots are hackernews:1 and github:a/b
ScoreHistoryRows ==
    { <<>>,
      << <<"hackernews:1", 10, 0>> >>,
      << <<"hackernews:1", 10, 0>>, <<"hackernews:1", 50, 120>> >>,
      << <<"hackernews:1", 50, 0>>, <<"hackernews:1", 10, 120>> >>,
      << <<"hackernews:1", 10, 0>>, <<"hackernews:1", 50, 5>> >>,
      << <<"hackernews:1", 10, 5>>, <<"hackernews:1", 50, 11>> >>,
      << <<"hackernews:1", 50, 0>>, <<"github:a/b", 50, 0>>,
         <<"hackernews:1", 10, 120>>, <<"github:a/b", 20, 120>> >>,
      << <<"hackernews:1", 10, 0>>, <<"github:a/b", 10, 0>>,
         <<"hackernews:1", 30, 120>>, <<"github:a/b", 50, 120>> >>,
      << <<"hackernews:1", 10, 0>>, <<"hackernews:1", 90, 60>>,
         <<"hackernews:1", 50, 120>> >>,
      << <<"hackernews:1", 10, 0>>, <<"hackernews:1", 50, 120>>,
         <<"hackernews:1", 20, 480>> >> }

RECURSIVE snapshotsOf(_, _, _)
\* the table AddSnapshot builds from rows[k..]
snapshotsOf(rows, k, snaps) ==
    IF k > Len(rows) THEN snaps
    ELSE snapshotsOf(rows, k + 1,
                     AddSnapshot(snaps, rows[k][1], rows[k][2], rows[k][3], "none").snaps)

\* the minute of the last row of a history
HistoryEnd(rows) == IF Len(rows) = 0 THEN 0 ELSE rows[Len(rows)][3]

\* the instants (minutes) a scoring call can wait for
ScoreInstants == {120, 300, 480}

\* the items of the clusters the scoring is tried on
ScoreItem(id, src, score) ==
    [ID |-> id, Source |-> src, Title |-> "GPT-5 by OpenAI", Score |-> score]

\* raw scores of a single-item cluster: the mean of the cluster
MeanScores == {-5, 0, 5, 10, 55, 100, 550, 1000, 2000}

SpreadItems ==
    << ScoreItem("hackernews:1", "hackernews", 10), ScoreItem("github:a/b", "github", 15),
       ScoreItem("reddit:r", "reddit", 10), ScoreItem("arxiv:p", "arxiv", 10),
       ScoreItem("rss:f", "rss", 10), ScoreItem("twitter:t", "twitter", 10),
       ScoreItem("hackernews:2", "hackernews", 10) >>

\* the clusters the scoring is tried on, as clusterItems builds them: one item
\* of each mean, and 2, 5 and 6 items of 2, 5 and 6 sources
ScoreClusters ==
    { buildCluster(<<ScoreItem("hackernews:1", "hackernews", m)>>, <<1>>) : m \in MeanScores }
    \cup { buildCluster(SpreadItems, indices) :
             indices \in { <<1, 2>>, <<1, 2, 3, 4, 5>>, <<1, 2, 3, 4, 5, 6>>,
                           <<1, 2, 3, 4, 5, 7>> } }

\* the calls the scoring is tried on: every cluster, and for the clusters of
\* one and of two items also with a GetSnapshots the database rejects
ScoreCalls ==
    { [cluster |-> c, failing |-> "none"] : c \in ScoreClusters }
    \cup { [cluster |-> c, failing |-> "hackernews:1"] :
              c \in {d \in ScoreClusters : Len(d.Items) <= 2 /\ d.TotalScore \in {10, 25}} }

\* the weights an engine is configured with
ScoreWeights ==
    { <<Rat(0, 1), Rat(0, 1), Rat(0, 1)>>,
      <<Rat(1, 1), Rat(0, 1), Rat(0, 1)>>,
      <<Rat(0, 1), Rat(1, 1), Rat(0, 1)>>,
      <<Rat(0, 1), Rat(0, 1), Rat(1, 1)>>,
      <<Rat(1, 1), Rat(1, 1), Rat(1, 1)>>,
      <<Rat(1, 2), Rat(-1, 2), Rat(0, 1)>> }

\* the rows of item id the table holds since the velocity lookback
WindowRows(id) ==
    SelectSeq(dbSnapshots, LAMBDA r : r.ItemID = id /\ r.CheckedAt >= now - VelocityWindow)

InitScore ==
    /\ \E w \in ScoreWeights :
        cfg = [llm |-> FALSE, llmMinScore |-> 0, notifiers |-> <<>>, minScore |-> 0,
               velocityWeight |-> w[1], crossSourceWeight |-> w[2],
               absoluteWeight |-> w[3]]
    /\ \E rows \in ScoreHistoryRows :
        /\ dbSnapshots = snapshotsOf(rows, 1, <<>>)
        /\ now = HistoryEnd(rows)
    /\ dbItems = <<>>
    /\ dbTrends = {}
    /\ nextTrendID = 1
    /\ last = [op |-> "none"]
    /\ IdleCluster

\* one call of scoreCluster; failing is the item whose GetSnapshots the
\* database rejects.  last keeps the time, the cluster, what the store returned for each
\* item, the velocity of each item and the score; last.prev keeps the same of
\* the call before when that call was on the identical cluster.
ScoreCluster ==
    /\ \E c \in ScoreCalls :
        LET cluster == c.cluster
            failing == c.failing
            e == NewEngine(cfg.velocityWeight, cfg.crossSourceWeight, cfg.absoluteWeight)
            n == Len(cluster.Items)
            call == [cluster |-> cluster,
                     reads |-> [k \in 1..n |->
                                   IF cluster.Items[k].ID = failing
                                       THEN [err |-> TRUE, rows |-> <<>>]
                                       ELSE [err |-> FALSE,
                                             rows |-> WindowRows(cluster.Items[k].ID)]],
                     velocities |-> [k \in 1..n |->
                                        itemVelocity(cluster.Items[k], dbSnapshots, failing)],
                     score |-> scoreCluster(e, cluster, dbSnapshots, failing)]
        IN  last' = [op |-> "score", at |-> now,
                     cluster |-> call.cluster, reads |-> call.reads,
                     velocities |-> call.velocities, score |-> call.score,
                     prev |-> IF last.op = "score" /\ last.cluster = cluster
                                  THEN <<[reads |-> last.reads, score |-> last.score]>>
                                  ELSE <<>>]
    /\ UNCHANGED <<cfg, dbItems, dbSnapshots, dbTrends, nextTrendID, now>>
    /\ UNCHANGED cvars

\* time passes between two calls
Elapse ==
    /\ \E t \in ScoreInstants :
        /\ t > now
        /\ now' = t
    /\ UNCHANGED <<cfg, dbItems, dbSnapshots, dbTrends, nextTrendID, last>>
    /\ UNCHANGED cvars

NextScore ==
    \/ ScoreCluster
    \/ Elapse

SpecScore == InitScore /\ [][NextScore]_vars

----------------------------------------------------------------------------
(* Detection cycles on degenerate stores: no items, items without a         *)
(* snapshot, titles without a significant token                              *)

\* the titles the sources report: one with tokens, one of stop words and
\* single characters only, and the empty title
DegenerateTitles == {"GPT-5 by OpenAI", "The a of 5", ""}

\* the order the handler stores the catalog's items in
DegenerateIDs == <<"hackernews:1", "hackernews:2", "github:a/b">>

\* the batches POST /api/collect stores: the first n catalog items, each
\* under one of the titles, with raw score 10 at minute 0
DegenerateBatches ==
    UNION { { [k \in 1..n |-> [CollectedItem(DegenerateIDs[k], 10, 0) EXCEPT
                                   !.Title = titles[k]]] :
                titles \in [1..n -> DegenerateTitles] } :
            n \in 0..Len(DegenerateIDs) }

\* the items table after handleCollect stored a batch on an empty store; the
\* handler writes no snapshot
DegenerateStores ==
    { UpsertItems(<<>>, batch, 1, "none", {}).tbl : batch \in DegenerateBatches }

InitDegenerate ==
    /\ cfg \in Configs
    /\ dbItems \in DegenerateStores
    /\ dbSnapshots = <<>>
    /\ dbTrends = {}
    /\ nextTrendID = 1
    /\ now = 300
    /\ last = [op |-> "none"]
    /\ IdleCluster

SpecDegenerate == InitDegenerate /\ [][Next]_vars

----------------------------------------------------------------------------
(* Detection cycles under alert thresholds at, above and below a trend's     *)
(* score                                                                     *)

\* trend.min_score of the configuration: unset, the score of a trend of one
\* item of raw score 10 without velocity, and the next integer
AlertMinScores == {0, 14, 15}

AlertConfigs ==
    { [llm |-> FALSE, llmMinScore |-> 0, notifiers |-> <<"slack", "discord">>,
       minScore |-> m, velocityWeight |-> Rat(0, 1), crossSourceWeight |-> Rat(0, 1),
       absoluteWeight |-> Rat(0, 1)] : m \in AlertMinScores }

InitAlert ==
    /\ cfg \in AlertConfigs
    /\ \E st \in StoresAfterOne :
        /\ dbItems = st.tbl
        /\ dbSnapshots = st.snaps
    /\ dbTrends = {}
    /\ nextTrendID = 1
    /\ now = 300
    /\ last = [op |-> "none"]
    /\ IdleCluster

SpecAlert == InitAlert /\ [][Next]_vars

----------------------------------------------------------------------------
(* Manager.Broadcast on every list of notifiers *)

\* the notifiers buildAlertManager can register, by Name()
NotifierNames == {"slack", "discord", "webhook"}

\* the lists NewManager can be given: every notifier at most once
NotifierLists ==
    UNION { { l \in [1..n -> NotifierNames] : \A a, b \in 1..n : l[a] = l[b] => a = b } :
            n \in 0..Cardinality(NotifierNames) }

\* the trends a notification is about
BroadcastTrends == 1..2

InitBroadcast ==
    /\ IdleCluster
    /\ \E l \in NotifierLists :
        cfg = [llm |-> FALSE, llmMinScore |-> 0, notifiers |-> l, minScore |-> 0,
               velocityWeight |-> Rat(0, 1), crossSourceWeight |-> Rat(0, 1),
               absoluteWeight |-> Rat(0, 1)]
    /\ dbItems = <<>>
    /\ dbSnapshots = <<>>
    /\ dbTrends = {}
    /\ nextTrendID = 1
    /\ now = 0
    /\ last = [op |-> "none"]

\* one call of Broadcast; any of the notifiers may fail
BroadcastCall ==
    /\ \E down \in SUBSET Range(cfg.notifiers), t \in BroadcastTrends :
        LET b == Broadcast(cfg.notifiers, down, t)
        IN  last' = [op |-> "broadcast", trend |-> t, down |-> down,
                     sends |-> b.sends, errs |-> b.errs, err |-> b.err]
    /\ UNCHANGED <<cfg, dbItems, dbSnapshots, dbTrends, nextTrendID, now>>
    /\ UNCHANGED cvars

NextBroadcast == BroadcastCall

SpecBroadcast == InitBroadcast /\ [][NextBroadcast]_vars

----------------------------------------------------------------------------
(* jaccardSimilarity as a function of two token lists *)

\* the list s from its last element to its first
Reverse(s) == [k \in 1..Len(s) |-> s[Len(s) + 1 - k]]

\* the token lists the similarity is tried on: the tokens of every title, in
\* the order of the title and in the opposite order
TokenLists ==
    {significantTokens(t) : t \in Titles} \cup {Reverse(significantTokens(t)) : t \in Titles}

InitJaccard ==
    /\ cfg = [llm |-> FALSE, llmMinScore |-> 0, notifiers |-> <<>>, minScore |-> 0,
              velocityWeight |-> Rat(0, 1), crossSourceWeight |-> Rat(0, 1),
              absoluteWeight |-> Rat(0, 1)]
    /\ dbItems = <<>>
    /\ dbSnapshots = <<>>
    /\ dbTrends = {}
    /\ nextTrendID = 1
    /\ now = 0
    /\ \E a, b \in TokenLists : last = [op |-> "tokens", a |-> a, b |-> b]
    /\ IdleCluster

\* the comparison of one pair in clusterItems, and of the same pair the other
\* way round
JaccardSimilarity ==
    /\ last.op = "tokens"
    /\ last' = [op |-> "jaccard", a |-> last.a, b |-> last.b,
                sim |-> jaccardSimilarity(last.a, last.b),
                rev |-> jaccardSimilarity(last.b, last.a)]
    /\ UNCHANGED <<cfg, dbItems, dbSnapshots, dbTrends, nextTrendID, now>>
    /\ UNCHANGED cvars

NextJaccard == JaccardSimilarity

SpecJaccard == InitJaccard /\ [][NextJaccard]_vars

----------------------------------------------------------------------------
(* UpsertItem on rows of every column *)

\* what a source reports of an item besides its identity: two reports of the
\* same item differ in every column
Reports ==
    { [Title |-> "GPT-5 by OpenAI", URL |-> "https://a", Description |-> "first",
       Author |-> "ann", Score |-> 10, Comments |-> 1, Tags |-> <<"ai">>,
       PublishedAt |-> 0, Extra |-> "stars=1"],
      [Title |-> "gpt gpt OPENAI", URL |-> "https://b", Description |-> "second",
       Author |-> "bob", Score |-> 50, Comments |-> 7, Tags |-> <<"ai", "llm">>,
       PublishedAt |-> 5, Extra |-> "stars=9"] }

\* the item a collector builds at time t for catalog entry id from a report
ReportedItem(id, rep, t) ==
    [ID |-> id, Source |-> Catalog[id].Source, ExternalID |-> Catalog[id].ExternalID,
     Title |-> rep.Title, URL |-> rep.URL, Description |-> rep.Description,
     Author |-> rep.Author, Score |-> rep.Score, Comments |-> rep.Comments,
     Tags |-> rep.Tags, PublishedAt |-> rep.PublishedAt, CollectedAt |-> t,
     Extra |-> rep.Extra]

\* the items stored one by one
UpsertIDs == {"hackernews:1", "github:a/b"}

InitUpsert ==
    /\ IdleMain
    /\ IdleCluster

\* one UpsertItem; last keeps the item, the table before and the outcome
Upsert ==
    /\ \E id \in UpsertIDs, rep \in Reports, failing \in {"none", "hackernews:1"} :
        LET item == ReportedItem(id, rep, now)
            r == UpsertItem(dbItems, item, failing)
        IN  /\ dbItems' = r.tbl
            /\ last' = [op |-> "upsert", item |-> item, before |-> dbItems, err |-> r.err]
    /\ UNCHANGED <<cfg, dbSnapshots, dbTrends, nextTrendID, now>>
    /\ UNCHANGED cvars

NextUpsert ==
    \/ Upsert
    \/ Tick

SpecUpsert == InitUpsert /\ [][NextUpsert]_vars

----------------------------------------------------------------------------
(* The IDs the collectors build, and the rows they upsert onto *)

\* what the collectors see of an entry: the source type, the feed or the
\* account the entry was read from ("" for a source without feeds) and the
\* entry's external id (story id, GUID)
Entries ==
    { [Source |-> "hackernews", From |-> "", ExternalID |-> e] : e \in {"1", "2"} }
    \cup { [Source |-> "rss", From |-> f, ExternalID |-> g] :
              f \in {"a", "b"}, g \in {"g1", "g2"} }
    \cup { [Source |-> "twitter", From |-> f, ExternalID |-> "g1"] : f \in {"a", "b"} }

\* fmt.Sprintf("hackernews:%d", story.ID), fmt.Sprintf("rss:%s:%s",
\* feed.Name, entry.GUID) and fmt.Sprintf("twitter:%s:%s", account,
\* entry.GUID) on the entries
Sprintf ==
    (<<"hackernews", "", "1">> :> "hackernews:1")
    @@ (<<"hackernews", "", "2">> :> "hackernews:2")
    @@ (<<"rss", "a", "g1">> :> "rss:a:g1") @@ (<<"rss", "a", "g2">> :> "rss:a:g2")
    @@ (<<"rss", "b", "g1">> :> "rss:b:g1") @@ (<<"rss", "b", "g2">> :> "rss:b:g2")
    @@ (<<"twitter", "a", "g1">> :> "twitter:a:g1")
    @@ (<<"twitter", "b", "g1">> :> "twitter:b:g1")

\* the Item literal of the collectors at time t
EntryItem(entry, score, t) ==
    [ID |-> Sprintf[<<entry.Source, entry.From, entry.ExternalID>>],
     Source |-> entry.Source, ExternalID |-> entry.ExternalID,
     Title |-> "GPT-5 by OpenAI", Score |-> score, CollectedAt |-> t]

InitIdentity ==
    /\ IdleMain
    /\ IdleCluster

\* a collector reports one entry and UpsertItem stores it; last keeps the
\* item, the table before and the outcome
CollectEntry ==
    /\ \E entry \in Entries, score \in {0, 10} :
        LET item == EntryItem(entry, score, now)
            r == UpsertItem(dbItems, item, "none")
        IN  /\ dbItems' = r.tbl
            /\ last' = [op |-> "entry", item |-> item, before |-> dbItems, err |-> r.err]
    /\ UNCHANGED <<cfg, dbSnapshots, dbTrends, nextTrendID, now>>
    /\ UNCHANGED cvars

NextIdentity == CollectEntry

SpecIdentity == InitIdentity /\ [][NextIdentity]_vars

----------------------------------------------------------------------------
(* HackerNews.Collect: the fetch goroutines, the semaphore, the mutex and    *)
(* the wait group                                                            *)

\* the variables the goroutines leave alone
svars == <<cItems, cClusters, cDone, cfg, dbItems, dbSnapshots, dbTrends, nextTrendID, now, last>>

\* the number of story IDs Collect fetches (len(ids) after the cut to h.limit)
MaxStories == 11

\* capacity of the channel sem
SemSlots == 10

\* goroutine 0 is the caller of Collect, goroutine id fetches story id
Stories == 1..MaxStories

\* the stories fetchItem returns and the filter lets through; every other
\* fetch fails, returns nil or is filtered out
AcceptedStories == {1, MaxStories}

\* the caller has started one goroutine per ID (wg.Add(1) before each go
\* statement) and is about to call wg.Wait
InitHN ==
    /\ IdleMain
    /\ cItems = <<>>
    /\ cClusters = <<>>
    /\ cDone = FALSE
    /\ pc = [g \in {0} \cup Stories |-> IF g = 0 THEN "wait" ELSE "sem"]
    /\ mem = [sem |-> 0, mu |-> 0, items |-> <<>>, wg |-> MaxStories, returned |-> <<>>]

\* a semSend that never blocks
semSendUnbounded(g) ==
    /\ pc[g] = "sem"
    /\ mem' = [mem EXCEPT !.sem = @ + 1]
    /\ pc' = [pc EXCEPT ![g] = "fetch"]
    /\ UNCHANGED svars

\* sem <- struct{}{}: blocks while the channel is full
semSend(g) ==
    /\ pc[g] = "sem"
    /\ mem.sem < SemSlots
    /\ mem' = [mem EXCEPT !.sem = @ + 1]
    /\ pc' = [pc EXCEPT ![g] = "fetch"]
    /\ UNCHANGED svars

\* fetchItem returned an error, no story or a story the filter rejects: the
\* goroutine returns, and its deferred calls receive from sem and call wg.Done
fetchRejected(g) ==
    /\ pc[g] = "fetch"
    /\ g \notin AcceptedStories
    /\ mem' = [mem EXCEPT !.sem = @ - 1, !.wg = @ - 1]
    /\ pc' = [pc EXCEPT ![g] = "done"]
    /\ UNCHANGED svars

\* fetchItem returned a story the filter accepts: the goroutine builds the
\* item and goes on to mu.Lock
fetchAccepted(g) ==
    /\ pc[g] = "fetch"
    /\ g \in AcceptedStories
    /\ pc' = [pc EXCEPT ![g] = "lock"]
    /\ UNCHANGED mem
    /\ UNCHANGED svars

\* a mu.Lock that does not wait for the holder
muLockNoWait(g) ==
    /\ pc[g] = "lock"
    /\ mem' = [mem EXCEPT !.mu = g]
    /\ pc' = [pc EXCEPT ![g] = "append"]
    /\ UNCHANGED svars

\* mu.Lock
muLock(g) ==
    /\ pc[g] = "lock"
    /\ mem.mu = 0
    /\ mem' = [mem EXCEPT !.mu = g]
    /\ pc' = [pc EXCEPT ![g] = "append"]
    /\ UNCHANGED svars

\* items = append(items, item); mu.Unlock()
appendItem(g) ==
    /\ pc[g] = "append"
    /\ mem' = [mem EXCEPT !.items = Append(@, g), !.mu = 0]
    /\ pc' = [pc EXCEPT ![g] = "exit"]
    /\ UNCHANGED svars

\* the goroutine returns: the deferred calls receive from sem and call wg.Done
exitFetch(g) ==
    /\ pc[g] = "exit"
    /\ mem' = [mem EXCEPT !.sem = @ - 1, !.wg = @ - 1]
    /\ pc' = [pc EXCEPT ![g] = "done"]
    /\ UNCHANGED svars

\* a wg.Wait that returns at once
wgWaitNoWait ==
    /\ pc[0] = "wait"
    /\ mem' = [mem EXCEPT !.returned = <<mem.items>>]
    /\ pc' = [pc EXCEPT ![0] = "returned"]
    /\ UNCHANGED svars

\* wg.Wait() returns when the counter is 0, and Collect returns items
wgWait ==
    /\ pc[0] = "wait"
    /\ mem.wg = 0
    /\ mem' = [mem EXCEPT !.returned = <<mem.items>>]
    /\ pc' = [pc EXCEPT ![0] = "returned"]
    /\ UNCHANGED svars

SemSend == \E g \in Stories : semSend(g)
FetchRejected == \E g \in Stories : fetchRejected(g)
FetchAccepted == \E g \in Stories : fetchAccepted(g)
MuLock == \E g \in Stories : muLock(g)
AppendItem == \E g \in Stories : appendItem(g)
ExitFetch == \E g \in Stories : exitFetch(g)

NextHN ==
    \/ SemSend
    \/ FetchRejected
    \/ FetchAccepted
    \/ MuLock
    \/ AppendItem
    \/ ExitFetch
    \/ wgWait

SpecHN == InitHN /\ [][NextHN]_vars

----------------------------------------------------------------------------
(* cmd/airadar runDaemon: the scheduler goroutine, the goroutine that waits  *)
(* for the signal, and the HTTP server with the goroutine of a request       *)

\* the variables the steps of clusterItems own
kvars == <<cItems, cClusters, cDone>>

\* the labels at which a goroutine is inside Engine.Detect
DetectLabels == {"list", "clear", "upsert"}

\* no store operation fails by itself
NoDetectFault == [kind |-> "none", id |-> "none", pos |-> 0]

\* the store rejects the upsert of the cluster at hand: with a cancelled
\* context every ExecContext returns the context's error
CancelledFault == [kind |-> "trend", id |-> "none", pos |-> 1]

\* the process runs until main returns
Running == pc.main /= "returned"

\* what the sources return in a cycle of the daemon at time t: HackerNews
\* fails or reports its two stories, GitHub fails
DaemonInputs(t) ==
    { o \in CollectInputs(t) :
        /\ o[2].err
        /\ \A p \in 1..Len(o[1].batch) : o[1].batch[p].Score = 10 }

\* runDaemon has built the store, the engine, the sources and the scheduler,
\* has started the two goroutines and is about to call srv.ListenAndServe
InitDaemon ==
    /\ IdleMain
    /\ cItems = <<>>
    /\ cClusters = <<>>
    /\ cDone = FALSE
    /\ pc = [sched |-> "collect0", http |-> "idle", main |-> "listen", notify |-> "waiting"]
    /\ mem = [cancelled |-> FALSE, listed |-> <<>>, clusters |-> <<>>, k |-> 0,
              trends |-> <<>>, before |-> {}, reads |-> {}]

\* the process receives SIGINT or SIGTERM: signal.NotifyContext cancels ctx
Signal ==
    /\ Running
    /\ ~mem.cancelled
    /\ mem' = [mem EXCEPT !.cancelled = TRUE]
    /\ UNCHANGED <<pc, kvars>>
    /\ UNCHANGED mvars

\* "go func() { <-ctx.Done(); fmt.Fprintln(os.Stderr, "\nshutting down...") }()"
notifyShutdown ==
    /\ Running
    /\ pc.notify = "waiting"
    /\ mem.cancelled
    /\ pc' = [pc EXCEPT !.notify = "printed"]
    /\ UNCHANGED <<mem, kvars>>
    /\ UNCHANGED mvars

\* http.ListenAndServe: it returns at once when it cannot listen, and then
\* runDaemon returns its error; else it serves
listen ==
    /\ pc.main = "listen"
    /\ \E l \in {"serving", "returned"} : pc' = [pc EXCEPT !.main = l]
    /\ UNCHANGED <<mem, kvars>>
    /\ UNCHANGED mvars

\* scheduler.collectAll(ctx), at the start of Run and on a tick of
\* collectTicker: with a cancelled context every src.Collect fails
schedCollect ==
    /\ Running
    /\ pc.sched \in {"collect0", "collect"}
    /\ \E outcome \in DaemonInputs(now) :
        /\ mem.cancelled => \A k \in 1..Len(sources) : outcome[k].err
        /\ LET st == collectAll(1, outcome, NoFault, now, CollectStart(dbItems, dbSnapshots))
           IN  /\ dbItems' = st.tbl
               /\ dbSnapshots' = st.snaps
               /\ last' = [op |-> "collect", entry |-> "scheduler", stored |-> st.stored,
                           snapped |-> st.snapped]
    /\ pc' = [pc EXCEPT !.sched = IF pc.sched = "collect0" THEN "list" ELSE "select"]
    /\ UNCHANGED <<cfg, dbTrends, nextTrendID, now, mem, kvars>>

\* select: case <-ctx.Done(): return ctx.Err()
selectDone ==
    /\ Running
    /\ pc.sched = "select"
    /\ mem.cancelled
    /\ pc' = [pc EXCEPT !.sched = "stopped"]
    /\ UNCHANGED <<mem, kvars>>
    /\ UNCHANGED mvars

\* select: case <-collectTicker.C: s.collectAll(ctx)
selectCollect ==
    /\ Running
    /\ pc.sched = "select"
    /\ Len(dbSnapshots) < MaxSnapshots
    /\ pc' = [pc EXCEPT !.sched = "collect"]
    /\ UNCHANGED <<mem, kvars>>
    /\ UNCHANGED mvars

\* select: case <-trendTicker.C: s.detectAndAlert(ctx), which calls Detect
selectTrend ==
    /\ Running
    /\ pc.sched = "select"
    /\ nextTrendID <= MaxTrendID
    /\ pc' = [pc EXCEPT !.sched = "list"]
    /\ UNCHANGED <<mem, kvars>>
    /\ UNCHANGED mvars

\* where goroutine g continues when its Detect returned: the scheduler with
\* the alert loop (after an error or without trends there is nothing to
\* alert), the goroutine of a request with its response
AfterDetect(g, alerts) ==
    IF g = "sched" THEN (IF alerts THEN "alert" ELSE "select") ELSE "idle"

\* Detect: ListItems of the last 24 hours; an error or an empty list returns
detectList(g) ==
    /\ Running
    /\ pc[g] = "list"
    /\ IF mem.cancelled
        THEN /\ pc' = [pc EXCEPT ![g] = AfterDetect(g, FALSE)]
             /\ last' = [op |-> "detected", err |-> "list", before |-> dbTrends,
                         after |-> dbTrends, reads |-> {}]
             /\ UNCHANGED mem
        ELSE \E listed \in ListItems(dbItems, now - ItemsWindow) :
                IF Len(listed) = 0
                    THEN /\ pc' = [pc EXCEPT ![g] = AfterDetect(g, FALSE)]
                         /\ last' = [op |-> "detected", err |-> "none", before |-> dbTrends,
                                     after |-> dbTrends, reads |-> {}]
                         /\ UNCHANGED mem
                    ELSE /\ pc' = [pc EXCEPT ![g] = "clear"]
                         /\ mem' = [mem EXCEPT !.listed = listed, !.before = dbTrends,
                                               !.reads = {}]
                         /\ UNCHANGED last
    /\ UNCHANGED <<cfg, dbItems, dbSnapshots, dbTrends, nextTrendID, now, kvars>>

\* Detect: ClearTrends, then clusterItems on the listed items (no evaluator
\* is configured)
detectClear(g) ==
    /\ Running
    /\ pc[g] = "clear"
    /\ IF mem.cancelled
        THEN /\ pc' = [pc EXCEPT ![g] = AfterDetect(g, FALSE)]
             /\ last' = [op |-> "detected", err |-> "clear", before |-> mem.before,
                         after |-> dbTrends, reads |-> mem.reads]
             /\ UNCHANGED <<mem, dbTrends>>
        ELSE /\ dbTrends' = ClearTrends(dbTrends)
             /\ \E clusters \in clusterItems(mem.listed) :
                    mem' = [mem EXCEPT !.clusters = clusters, !.k = 1, !.trends = <<>>]
             /\ pc' = [pc EXCEPT ![g] = "upsert"]
             /\ UNCHANGED last
    /\ UNCHANGED <<cfg, dbItems, dbSnapshots, nextTrendID, now, kvars>>

\* Detect: one turn of the loop over the clusters: score, UpsertTrend, append
detectUpsert(g) ==
    /\ Running
    /\ pc[g] = "upsert"
    /\ mem.k <= Len(mem.clusters)
    /\ LET st == scoreAndStore(NewEngine(cfg.velocityWeight, cfg.crossSourceWeight,
                                         cfg.absoluteWeight),
                               <<mem.clusters[mem.k]>>, 1,
                               IF mem.cancelled THEN CancelledFault ELSE NoDetectFault,
                               [tbl |-> dbTrends, nextID |-> nextTrendID,
                                trends |-> mem.trends, failed |-> {}])
       IN  /\ dbTrends' = st.tbl
           /\ nextTrendID' = st.nextID
           /\ mem' = [mem EXCEPT !.k = mem.k + 1, !.trends = st.trends]
    /\ UNCHANGED <<cfg, dbItems, dbSnapshots, now, last, pc, kvars>>

\* Detect: after the loop, sort the trends and return them
detectReturn(g) ==
    /\ Running
    /\ pc[g] = "upsert"
    /\ mem.k > Len(mem.clusters)
    /\ \E sorted \in sortByScoreDesc(mem.trends) :
        /\ mem' = [mem EXCEPT !.trends = sorted]
        /\ last' = [op |-> "detected", err |-> "none", before |-> mem.before,
                    after |-> dbTrends, reads |-> mem.reads, trends |-> sorted]
    /\ pc' = [pc EXCEPT ![g] = AfterDetect(g, TRUE)]
    /\ UNCHANGED <<cfg, dbItems, dbSnapshots, dbTrends, nextTrendID, now, kvars>>

\* detectAndAlert after Detect returned the trends: the alert loop; with a
\* cancelled context every Send and MarkAlerted fails
schedAlert ==
    /\ Running
    /\ pc.sched = "alert"
    /\ LET a == detectAndAlert([err |-> "none", trends |-> mem.trends, tbl |-> dbTrends],
                               NewScheduler(cfg.minScore), cfg.notifiers,
                               IF mem.cancelled THEN Range(cfg.notifiers) ELSE {},
                               mem.cancelled)
       IN  /\ dbTrends' = a.tbl
           /\ last' = [op |-> "alerted", sends |-> a.sends, marked |-> a.marked]
    /\ pc' = [pc EXCEPT !.sched = "select"]
    /\ UNCHANGED <<cfg, dbItems, dbSnapshots, nextTrendID, now, mem, kvars>>

\* a /health route that runs Server.RunTrendDetection in the goroutine of the
\* request
handleHealthDetects(g) ==
    /\ pc.main = "serving"
    /\ pc[g] = "idle"
    /\ pc' = [pc EXCEPT ![g] = "list"]
    /\ UNCHANGED <<mem, kvars>>
    /\ UNCHANGED mvars

\* GET /health: the status, without a store access
handleHealth(g) ==
    /\ pc.main = "serving"
    /\ pc[g] = "idle"
    /\ last' = [op |-> "health", status |-> "ok"]
    /\ UNCHANGED <<cfg, dbItems, dbSnapshots, dbTrends, nextTrendID, now>>
    /\ UNCHANGED cvars

\* GET /api/v1/trends: one ListTrends query; mem.reads keeps what the queries
\* returned while a Detect was between ListItems and its return
handleTrends(g) ==
    /\ pc.main = "serving"
    /\ pc[g] = "idle"
    /\ last' = [op |-> "trends", rows |-> dbTrends]
    /\ mem' = IF \E d \in DOMAIN pc : pc[d] \in {"clear", "upsert"}
                  THEN [mem EXCEPT !.reads = mem.reads \cup {dbTrends}]
                  ELSE mem
    /\ UNCHANGED <<cfg, dbItems, dbSnapshots, dbTrends, nextTrendID, now, pc, kvars>>

DetectList == \E g \in {"sched", "http"} : detectList(g)
DetectClear == \E g \in {"sched", "http"} : detectClear(g)
DetectUpsert == \E g \in {"sched", "http"} : detectUpsert(g)
DetectReturn == \E g \in {"sched", "http"} : detectReturn(g)
HandleHealth == handleHealth("http")
HandleTrends == handleTrends("http")

\* the steps of the scheduler goroutine
SchedulerStep ==
    \/ schedCollect
    \/ selectCollect
    \/ selectTrend
    \/ DetectList
    \/ DetectClear
    \/ DetectUpsert
    \/ DetectReturn
    \/ schedAlert

NextDaemon ==
    \/ Signal
    \/ notifyShutdown
    \/ listen
    \/ selectDone
    \/ SchedulerStep
    \/ HandleHealth
    \/ HandleTrends

SpecDaemon == InitDaemon /\ [][NextDaemon]_vars

\* a collection or detection cycle the scheduler has started comes to its
\* end: every store call, request and Send of a cycle returns, so the
\* scheduler is at its select (or has left the loop) again and again while
\* the process runs
CyclesEnd == []<>(pc.sched \in {"select", "stopped"} \/ ~Running)

\* The daemon under the scheduling of the Go runtime: a goroutine that can
\* take a step takes one, and a select that is reached again and again with
\* ctx.Done() ready takes that case.  Requests may or may not arrive.
SpecDaemonLive ==
    /\ SpecDaemon
    /\ CyclesEnd
    /\ SF_vars(selectDone)
    /\ WF_vars(notifyShutdown)
    /\ WF_vars(listen)

----------------------------------------------------------------------------
(* Reddit.Collect on the one Reddit value that runDaemon hands to the        *)
(* scheduler and to the server: authenticate, fetchSubreddit and r.mu        *)

\* the goroutines that call Collect: the scheduler's collectAll and the
\* handler of POST /api/v1/collect
Collectors == {"sched", "http"}

\* r.subreddits
Subreddits == <<"MachineLearning", "artificial">>

\* the access tokens the token endpoint hands out, in this order; when they
\* are used up the token request fails
Tokens == <<"t1", "t2">>

\* expires_in of a token response, in minutes
ExpiresIn == 400

\* the 60 seconds authenticate takes off expires_in, in minutes
ExpiryMargin == 1

\* what a read of a string finds while another goroutine stores it: the
\* old value, the new value, or the pointer of one with the length of the
\* other
TornRead(old, new) == {old, new, "torn"}

\* NewReddit has built r; no Collect runs
InitReddit ==
    /\ IdleMain
    /\ cItems = <<>>
    /\ cClusters = <<>>
    /\ cDone = FALSE
    /\ pc = [g \in Collectors |-> "idle"]
    /\ mem = [mu |-> "none", token |-> "", tokenExpiry |-> 0, storing |-> "none",
              response |-> "", issued |-> 0, sub |-> [g \in Collectors |-> 0]]

\* an access to r.token or r.tokenExpiry by goroutine g
Access(g, fn, kind, value) ==
    [op |-> "token", by |-> g, fn |-> fn, kind |-> kind, value |-> value,
     holder |-> mem.mu, storing |-> mem.storing]

\* Collect is called and calls authenticate
collectCall(g) ==
    /\ pc[g] = "idle"
    /\ pc' = [pc EXCEPT ![g] = "lock"]
    /\ UNCHANGED <<mem, kvars>>
    /\ UNCHANGED mvars

\* authenticate: r.mu.Lock()
redditLock(g) ==
    /\ pc[g] = "lock"
    /\ mem.mu = "none"
    /\ mem' = [mem EXCEPT !.mu = g]
    /\ pc' = [pc EXCEPT ![g] = "check"]
    /\ UNCHANGED kvars
    /\ UNCHANGED mvars

\* authenticate: "if r.token != "" && time.Now().Before(r.tokenExpiry)
\* { return nil }", the deferred Unlock included
checkToken(g) ==
    /\ pc[g] = "check"
    /\ IF mem.token /= "" /\ now < mem.tokenExpiry
        THEN /\ mem' = [mem EXCEPT !.mu = "none", !.sub[g] = 1]
             /\ pc' = [pc EXCEPT ![g] = "fetch"]
        ELSE /\ pc' = [pc EXCEPT ![g] = "request"]
             /\ UNCHANGED mem
    /\ last' = Access(g, "authenticate", "read", mem.token)
    /\ UNCHANGED <<cfg, dbItems, dbSnapshots, dbTrends, nextTrendID, now, kvars>>

\* authenticate: the token request; when it fails authenticate returns the
\* error (the deferred Unlock runs) and so does Collect
tokenRequest(g) ==
    /\ pc[g] = "request"
    /\ \/ /\ mem.issued < Len(Tokens)
          /\ mem' = [mem EXCEPT !.issued = mem.issued + 1,
                                !.response = Tokens[mem.issued + 1]]
          /\ pc' = [pc EXCEPT ![g] = "store"]
       \/ /\ mem' = [mem EXCEPT !.mu = "none"]
          /\ pc' = [pc EXCEPT ![g] = "idle"]
    /\ UNCHANGED kvars
    /\ UNCHANGED mvars

\* authenticate: "r.token = tokenResp.AccessToken" begins: the store of the
\* two words of the string is not one step for the other goroutines
storeToken(g) ==
    /\ pc[g] = "store"
    /\ mem' = [mem EXCEPT !.storing = g]
    /\ pc' = [pc EXCEPT ![g] = "stored"]
    /\ UNCHANGED kvars
    /\ UNCHANGED mvars

\* authenticate: the store of r.token is complete
storedToken(g) ==
    /\ pc[g] = "stored"
    /\ mem' = [mem EXCEPT !.token = mem.response, !.storing = "none"]
    /\ pc' = [pc EXCEPT ![g] = "expiry"]
    /\ last' = Access(g, "authenticate", "write", mem.response)
    /\ UNCHANGED <<cfg, dbItems, dbSnapshots, dbTrends, nextTrendID, now, kvars>>

\* authenticate: "r.tokenExpiry = time.Now().Add(ExpiresIn-60 seconds);
\* return nil", the deferred Unlock included
storeExpiry(g) ==
    /\ pc[g] = "expiry"
    /\ mem' = [mem EXCEPT !.tokenExpiry = now + ExpiresIn - ExpiryMargin,
                          !.mu = "none", !.sub[g] = 1]
    /\ pc' = [pc EXCEPT ![g] = "fetch"]
    /\ last' = Access(g, "authenticate", "write", now + ExpiresIn - ExpiryMargin)
    /\ UNCHANGED <<cfg, dbItems, dbSnapshots, dbTrends, nextTrendID, now, kvars>>

\* fetchSubreddit for the next subreddit: "Bearer "+r.token is read without
\* r.mu; after the last subreddit Collect returns
fetchSubreddit(g) ==
    /\ pc[g] = "fetch"
    /\ \E bearer \in IF mem.storing \notin {"none", g}
                         THEN TornRead(mem.token, mem.response)
                         ELSE {mem.token} :
        last' = Access(g, "fetchSubreddit", "read", bearer)
    /\ IF mem.sub[g] < Len(Subreddits)
        THEN /\ mem' = [mem EXCEPT !.sub[g] = mem.sub[g] + 1]
             /\ UNCHANGED pc
        ELSE /\ mem' = [mem EXCEPT !.sub[g] = 0]
             /\ pc' = [pc EXCEPT ![g] = "idle"]
    /\ UNCHANGED <<cfg, dbItems, dbSnapshots, dbTrends, nextTrendID, now, kvars>>

CollectCall == \E g \in Collectors : collectCall(g)
RedditLock == \E g \in Collectors : redditLock(g)
CheckToken == \E g \in Collectors : checkToken(g)
TokenRequest == \E g \in Collectors : tokenRequest(g)
StoreToken == \E g \in Collectors : storeToken(g)
StoredToken == \E g \in Collectors : storedToken(g)
StoreExpiry == \E g \in Collectors : storeExpiry(g)
FetchSubreddit == \E g \in Collectors : fetchSubreddit(g)

NextReddit ==
    \/ CollectCall
    \/ RedditLock
    \/ CheckToken
    \/ TokenRequest
    \/ StoreToken
    \/ StoredToken
    \/ StoreExpiry
    \/ FetchSubreddit
    \/ Tick

SpecReddit == InitReddit /\ [][NextReddit]_vars

----------------------------------------------------------------------------
(* Detection cycles: what the state after a run of DetectAndAlert shows *)

Detected == last.op = "detect"

IDsOf(its) == [k \in 1..Len(its) |-> its[k].ID]

\* the IDs of the stored items collected within the last 24 hours
RecentIDs == {id \in DOMAIN dbItems : dbItems[id].CollectedAt >= now - ItemsWindow}

\* the evaluator's threshold under the configuration
Threshold == IF cfg.llmMinScore <= 0 THEN 6 ELSE cfg.llmMinScore

\* the results of the provider's reply that meet the threshold
Passing == SelectSeq(last.reply.results, LAMBDA r : r.Score >= Threshold)

LLMFailed == Detected /\ last.evaluated /\ last.reply.kind \in {"network", "status", "payload"}

\* C3: when the evaluator is enabled and its call fails (network error,
\* non-2xx status, unparseable payload), Detect returns a nil error and a
\* trend list computed from the original, unfiltered items with their
\* original titles.
C3_LLMFailureFallsBack ==
    LLMFailed =>
        /\ last.err = "none"
        /\ last.llmErr
        /\ last.clustered
        /\ last.clusterInput = last.listed
        /\ Range(IDsOf(last.clusterInput)) = RecentIDs
        /\ \A k \in 1..Len(last.clusterInput) :
              last.clusterInput[k] = dbItems[last.clusterInput[k].ID]
        /\ \A k \in 1..Len(last.trends) :
              /\ Range(last.trends[k].ItemIDs) \subseteq RecentIDs
              /\ \E id \in Range(last.trends[k].ItemIDs) :
                    last.trends[k].Topic = dbItems[id].Title
        /\ last.failed = {} =>
              /\ Len(last.trends) = last.clusters
              /\ \A id \in RecentIDs :
                    \E k \in 1..Len(last.trends) : id \in Range(last.trends[k].ItemIDs)

C3_Witness ==
    /\ LLMFailed
    /\ last.reply.kind = "status"
    /\ Len(last.listed) >= 2
    /\ Len(last.trends) >= 1

ZeroResults ==
    /\ Detected
    /\ last.evaluated
    /\ last.reply.kind = "ok"
    /\ Len(Passing) = 0

\* C4 as claimed: when the call succeeds but yields zero results (an empty
\* array, or no result meeting the minimum), Detect continues with the
\* original, unfiltered items and produces trends from them.
C4_ZeroResultsFallBack ==
    ZeroResults =>
        /\ last.clustered
        /\ last.clusterInput = last.listed
        /\ Len(last.trends) >= 1

\* C4 as amended: when the call succeeds but yields zero results, Detect ends
\* the cycle: it returns a nil error and no trends, clusters nothing, and
\* leaves the trends table empty.
C4_ZeroResultsEndCycle ==
    ZeroResults =>
        /\ last.err = "none"
        /\ ~last.llmErr
        /\ ~last.clustered
        /\ last.trends = <<>>
        /\ dbTrends = {}

C4_Witness ==
    /\ ZeroResults
    /\ Len(last.reply.results) >= 1
    /\ Len(last.listed) >= 2
    /\ nextTrendID > 1
    /\ dbTrends = {}

\* C5 as claimed: any store failure during a detection cycle (listing items,
\* clearing trends, reading an item's snapshots, writing a trend record) is
\* fatal: Detect returns a non-nil error instead of a trend list.
C5_StoreFailureIsFatal ==
    Detected /\ last.failed /= {} => last.err /= "none" /\ last.trends = <<>>

\* C5 as amended: a failure of listing items or of clearing trends is fatal,
\* Detect returns a non-nil error and no trend list, and nothing else makes
\* Detect return an error; a failure reading an item's snapshots or writing a
\* trend record is not: Detect returns a nil error and the trends of all
\* clusters but those whose write failed.
C5_ListAndClearFailuresAreFatal ==
    Detected =>
        /\ last.failed \cap {"list", "clear"} /= {} =>
              last.err /= "none" /\ last.trends = <<>>
        /\ last.err /= "none" => last.failed \cap {"list", "clear"} /= {}
        /\ last.failed /= {} /\ last.failed \subseteq {"snapshot", "trend"} =>
              /\ last.err = "none"
              /\ last.clustered
              /\ "trend" \in last.failed => Len(last.trends) < last.clusters
              /\ "trend" \notin last.failed => Len(last.trends) = last.clusters

C5_Witness ==
    /\ Detected
    /\ last.failed = {"trend"}
    /\ last.err = "none"
    /\ Len(last.trends) >= 1

\* C6: after every Detect that returns a nil error, whatever the stored items
\* (also with no item in the last 24 hours), the trends table holds exactly
\* the trends that call produced and none of an earlier cycle.
C6_TableHoldsTheCycleTrends ==
    Detected /\ last.err = "none" =>
        {row.ID : row \in dbTrends} = {last.trends[k].ID : k \in 1..Len(last.trends)}

\* the sends of the cycle that went out for trend t
SendsFor(t) == {k \in 1..Len(last.sends) : last.sends[k].trend = t}

\* C7 as claimed: MarkAlerted is called for every trend for which at least
\* one configured notifier's Send succeeded.
C7_MarkedOnceANotifierFired ==
    Detected =>
        \A k \in 1..Len(last.trends) :
            (\E n \in SendsFor(last.trends[k].ID) : last.sends[n].ok)
                => last.trends[k].ID \in last.marked

\* C7 as amended: MarkAlerted is called for a trend exactly when the trend
\* was broadcast and the Send of every configured notifier succeeded; a trend
\* for which one notifier succeeded and another failed is not marked.
C7_MarkedIffEveryNotifierFired ==
    Detected =>
        /\ \A k \in 1..Len(last.trends) :
              last.trends[k].ID \in last.marked
                  <=> /\ SendsFor(last.trends[k].ID) /= {}
                      /\ \A n \in SendsFor(last.trends[k].ID) : last.sends[n].ok
        /\ last.marked \subseteq {last.trends[k].ID : k \in 1..Len(last.trends)}

C7_Witness ==
    /\ Detected
    /\ \E k \in 1..Len(last.trends) :
          /\ \E n \in SendsFor(last.trends[k].ID) : last.sends[n].ok
          /\ \E n \in SendsFor(last.trends[k].ID) : ~last.sends[n].ok
          /\ last.trends[k].ID \notin last.marked
    /\ \A row \in dbTrends : ~row.Alerted

\* C8: every collection cycle, whichever entry point runs it, appends exactly
\* one score snapshot for each item it stores in that cycle.
C8_OneSnapshotPerStoredItem ==
    last.op = "collect" =>
        \A id \in ItemIDs :
            Cardinality({k \in 1..Len(last.snapped) : last.snapped[k] = id})
                = IF id \in last.stored THEN 1 ELSE 0

\* C9 as claimed: in a detection cycle with the evaluator enabled and at
\* least one item, exactly one HTTP request goes to the provider.
C9_ExactlyOneRequest ==
    Detected /\ cfg.llm /\ Len(last.listed) >= 1 => last.requests = 1

\* C9 as amended: a detection cycle never sends more than one request to the
\* provider, however many items there are and whether or not the request
\* fails; with the evaluator enabled and at least one item it sends exactly
\* one, unless ClearTrends failed before the evaluator ran or the request
\* could not be built.
C9_AtMostOneRequest ==
    Detected =>
        /\ last.requests \in {0, 1}
        /\ last.requests = 1
              <=> /\ cfg.llm
                  /\ Len(last.listed) >= 1
                  /\ "clear" \notin last.failed
                  /\ last.reply.kind /= "build"

C9_Witness ==
    /\ Detected
    /\ Len(last.listed) >= 2
    /\ last.reply.kind = "network"
    /\ last.requests = 1

SuccessfulEvaluation ==
    /\ Detected
    /\ last.evaluated
    /\ last.reply.kind = "ok"
    /\ Len(Passing) >= 1

\* the IDs of the listed items that have a passing result, in list order
KeptIDs ==
    SelectSeq(IDsOf(last.listed), LAMBDA id : \E j \in 1..Len(Passing) : Passing[j].ID = id)

\* the last passing result of an item ID
LastResult(id) ==
    Passing[CHOOSE j \in 1..Len(Passing) :
                /\ Passing[j].ID = id
                /\ \A i \in j + 1..Len(Passing) : Passing[i].ID /= id]

C16_TrendsByScoreDescending ==
    Detected =>
        \A k \in 1..Len(last.trends) - 1 :
            RatGeq(last.trends[k].Score, last.trends[k + 1].Score)

C16_Witness ==
    /\ Detected
    /\ last.err = "none"
    /\ Len(last.trends) >= 2
    /\ RatLess(last.trends[2].Score, last.trends[1].Score)
    /\ last.trends[1].ID > last.trends[2].ID

----------------------------------------------------------------------------
(* Scoring: what the state after a call of scoreCluster shows *)

Scored == last.op = "score"

RatEq(a, b) == a.num * b.den = b.num * a.den

\* the configured weights are velocity v, cross-source c and absolute a
WeightsAre(v, c, a) ==
    /\ RatEq(cfg.velocityWeight, v)
    /\ RatEq(cfg.crossSourceWeight, c)
    /\ RatEq(cfg.absoluteWeight, a)

\* the largest of the item velocities of the call
TopVelocity ==
    CHOOSE v \in Range(last.velocities) : \A w \in Range(last.velocities) : ~RatLess(v, w)

\* C11 as claimed: the velocity component is the largest item velocity of the
\* cluster, capped at 100 and not clamped from below: it is negative when
\* every item's velocity is.
C11_VelocityIsTheCappedMaximum ==
    Scored /\ WeightsAre(Rat(1, 1), Rat(0, 1), Rat(0, 1)) =>
        RatEq(last.score,
              IF RatLess(RatInt(100), TopVelocity) THEN RatInt(100) ELSE TopVelocity)

\* C11 as amended: the velocity component is the largest item velocity of the
\* cluster, capped at 100 from above and floored at 0 from below: it is 0
\* when every item's velocity is negative.
C11_VelocityIsTheMaximumWithin0To100 ==
    Scored /\ WeightsAre(Rat(1, 1), Rat(0, 1), Rat(0, 1)) =>
        RatEq(last.score,
              IF RatLess(RatInt(100), TopVelocity) THEN RatInt(100)
              ELSE IF RatLess(TopVelocity, RatInt(0)) THEN RatInt(0)
              ELSE TopVelocity)

C11_Witness ==
    /\ Scored
    /\ WeightsAre(Rat(1, 1), Rat(0, 1), Rat(0, 1))
    /\ Len(last.velocities) = 2
    /\ \A k \in 1..2 : RatLess(last.velocities[k], RatInt(0))
    /\ ~RatEq(last.velocities[1], last.velocities[2])
    /\ RatEq(last.score, RatInt(0))

\* the velocity the claim gives for the rows the store returned
VelocityOfRows(rows) ==
    IF Len(rows) < 2 THEN Rat(0, 1)
    ELSE LET minutes == rows[Len(rows)].CheckedAt - rows[1].CheckedAt
         IN  IF minutes * 10 < 60 THEN Rat(0, 1)
             ELSE Rat((rows[Len(rows)].Score - rows[1].Score) * 60, minutes)

\* C12: itemVelocity is (score of the latest snapshot - score of the earliest)
\* per hour elapsed between the two, over the item's snapshots of the last 6
\* hours; 0 with fewer than two snapshots in the window or less than 0.1
\* hours elapsed; a negative result is returned as it is.
C12_VelocityIsDeltaPerHour ==
    Scored =>
        /\ \A i, j \in 1..Len(dbSnapshots) :
              i < j => dbSnapshots[i].CheckedAt <= dbSnapshots[j].CheckedAt
        /\ \A k \in 1..Len(last.velocities) :
              /\ RatEq(last.velocities[k], VelocityOfRows(last.reads[k].rows))
              /\ ~last.reads[k].err =>
                    \A q \in Range(dbSnapshots) :
                        (/\ q.ItemID = last.cluster.Items[k].ID
                         /\ q.CheckedAt >= last.at - 360) => q \in Range(last.reads[k].rows)
              /\ \A r \in Range(last.reads[k].rows) :
                    /\ r.ItemID = last.cluster.Items[k].ID
                    /\ r.CheckedAt >= last.at - 360
                    /\ r.CheckedAt <= last.at

C12_Witness ==
    /\ Scored
    /\ \E k \in 1..Len(last.velocities) :
          /\ Len(last.reads[k].rows) = 2
          /\ last.reads[k].rows[1].Score = 50 /\ last.reads[k].rows[2].Score = 10
          /\ last.reads[k].rows[2].CheckedAt - last.reads[k].rows[1].CheckedAt = 120
          /\ RatEq(last.velocities[k], RatInt(-20))

\* the components as the claims give them
CrossOf(cluster) ==
    LET n == Cardinality({cluster.Items[k].Source : k \in 1..Len(cluster.Items)})
    IN  IF 20 * n > 100 THEN 100 ELSE 20 * n

VelocityOf ==
    IF RatLess(RatInt(100), TopVelocity) THEN RatInt(100)
    ELSE IF RatLess(TopVelocity, RatInt(0)) THEN RatInt(0)
    ELSE TopVelocity

MeanOf(cluster) == Rat(SumScore(cluster.Items, 1), Len(cluster.Items))

\* the value at m of the line from (lo, a) to (hi, b)
Interpolate(lo, hi, a, b, m) ==
    RatAdd(RatInt(a), RatMul(RatAdd(m, RatInt(-lo)), Rat(b - a, hi - lo)))

AbsoluteOf(m) ==
    IF ~RatLess(RatInt(0), m) THEN RatInt(0)
    ELSE IF ~RatLess(RatInt(10), m) THEN Interpolate(0, 10, 0, 20, m)
    ELSE IF ~RatLess(RatInt(100), m) THEN Interpolate(10, 100, 20, 60, m)
    ELSE IF ~RatLess(RatInt(1000), m) THEN Interpolate(100, 1000, 60, 100, m)
    ELSE RatInt(100)

\* the weights the claim gives the engine: cross-source, velocity, absolute
ClaimedWeights ==
    IF RatAdd(RatAdd(cfg.velocityWeight, cfg.crossSourceWeight), cfg.absoluteWeight).num = 0
        THEN [cross |-> Rat(1, 2), velocity |-> Rat(3, 10), absolute |-> Rat(1, 5)]
        ELSE [cross |-> cfg.crossSourceWeight, velocity |-> cfg.velocityWeight,
              absolute |-> cfg.absoluteWeight]

\* C13: the composite score is crossScore*crossWeight +
\* velocityScore*velocityWeight + absoluteScore*absoluteWeight with the
\* configured weights, not renormalized; weights that sum to zero are replaced
\* by 0.5 (cross-source), 0.3 (velocity) and 0.2 (absolute).
C13_CompositeIsTheWeightedSum ==
    Scored =>
        RatEq(last.score,
              RatAdd(RatAdd(RatMul(RatInt(CrossOf(last.cluster)), ClaimedWeights.cross),
                            RatMul(VelocityOf, ClaimedWeights.velocity)),
                     RatMul(AbsoluteOf(MeanOf(last.cluster)), ClaimedWeights.absolute)))

C13_Witness ==
    /\ Scored
    /\ WeightsAre(Rat(1, 2), Rat(-1, 2), Rat(0, 1))
    /\ RatLess(RatInt(0), VelocityOf)
    /\ Len(last.cluster.Items) = 2
    /\ RatEq(last.score,
             RatAdd(RatAdd(RatInt(20), RatMul(VelocityOf, Rat(3, 10))),
                    RatMul(AbsoluteOf(Rat(25, 2)), Rat(1, 5))))

C15_CrossSourceIsCapped ==
    Scored /\ WeightsAre(Rat(0, 1), Rat(1, 1), Rat(0, 1)) =>
        LET n == Cardinality({last.cluster.Items[k].Source :
                                 k \in 1..Len(last.cluster.Items)})
        IN  /\ RatEq(last.score, RatInt(CrossOf(last.cluster)))
            /\ n >= 5 => RatEq(last.score, RatInt(100))
            /\ n < 5 => RatEq(last.score, RatInt(20 * n))

C15_Witness ==
    /\ Scored
    /\ WeightsAre(Rat(0, 1), Rat(1, 1), Rat(0, 1))
    /\ Cardinality({last.cluster.Items[k].Source : k \in 1..Len(last.cluster.Items)}) = 6
    /\ RatEq(last.score, RatInt(100))

\* C18 as claimed: two calls of scoreCluster on the identical cluster with the
\* identical weights return the identical score.
C18_SameClusterSameScore ==
    Scored /\ last.prev /= <<>> => RatEq(last.prev[1].score, last.score)

\* C18 as amended: two calls of scoreCluster on the identical cluster with
\* the identical weights return the identical score when the store returns
\* the same snapshots of the last 6 hours, or the same failure, for every item
\* of the cluster in both calls.
C18_SameSnapshotsSameScore ==
    Scored /\ last.prev /= <<>> /\ last.prev[1].reads = last.reads =>
        RatEq(last.prev[1].score, last.score)

C18_Witness ==
    /\ Scored
    /\ last.prev /= <<>>
    /\ last.prev[1].reads = last.reads
    /\ Len(last.reads[1].rows) = 2
    /\ last.at = 300
    /\ RatLess(RatInt(0), TopVelocity)
    /\ RatEq(last.prev[1].score, last.score)

----------------------------------------------------------------------------
(* Degenerate inputs of a detection cycle *)

\* the stored items of a trend
TrendItems(t) == [k \in 1..Len(t.ItemIDs) |-> dbItems[t.ItemIDs[k]]]

\* the positions of the clustered items whose title has no significant token
Tokenless ==
    {k \in 1..Len(last.clusterInput) :
        Len(significantTokens(last.clusterInput[k].Title)) = 0}

\* C17: degenerate inputs do not make Detect fail.  With no item collected
\* in the last 24 hours Detect returns no trend and a nil error; an item
\* without snapshots contributes velocity 0 to its trend; an item whose title
\* has no significant token is the only item of its trend.
C17_DegenerateInputsAreNoErrors ==
    Detected =>
        /\ last.failed = {} => last.err = "none"
        /\ RecentIDs = {} /\ "list" \notin last.failed =>
              last.err = "none" /\ last.trends = <<>> /\ ~last.clustered
        /\ last.clustered /\ last.failed = {} =>
              /\ \A k \in Tokenless :
                    \E j \in 1..Len(last.trends) :
                        /\ last.trends[j].ItemIDs = <<last.clusterInput[k].ID>>
                        /\ \A i \in 1..Len(last.trends) :
                              last.clusterInput[k].ID \in Range(last.trends[i].ItemIDs)
                                  => i = j
              /\ \A j \in 1..Len(last.trends) :
                    (\A id \in Range(last.trends[j].ItemIDs) :
                        \A r \in Range(dbSnapshots) : r.ItemID /= id)
                    => RatEq(last.trends[j].Score,
                             RatAdd(RatMul(RatInt(CrossOf([Items |-> TrendItems(last.trends[j])])),
                                           Rat(1, 2)),
                                    RatMul(AbsoluteOf(MeanOf([Items |-> TrendItems(last.trends[j])])),
                                           Rat(1, 5))))

C17_Witness ==
    /\ Detected
    /\ last.clustered
    /\ last.failed = {}
    /\ dbSnapshots = <<>>
    /\ Cardinality(Tokenless) = 2
    /\ Len(last.clusterInput) = 3
    /\ Len(last.trends) = 3
    /\ \E k \in Tokenless : last.clusterInput[k].Title = ""
    /\ \E k \in Tokenless : last.clusterInput[k].Title = "The a of 5"

----------------------------------------------------------------------------
(* Similarity of two token lists *)

Compared == last.op = "jaccard"

\* C19: jaccardSimilarity(A, B) is |A \cap B| / |A \cup B| of the token sets
\* without repeats, and 0 when either list is empty; it is the same for
\* (B, A), it is 1 for two equal non-empty sets, and neither the order nor the
\* repetition of tokens changes it.
C19_JaccardOfTokenSets ==
    Compared =>
        LET A == Range(last.a)
            B == Range(last.b)
        IN  /\ (Len(last.a) = 0 \/ Len(last.b) = 0) => RatEq(last.sim, Rat(0, 1))
            /\ (Len(last.a) > 0 /\ Len(last.b) > 0) =>
                  RatEq(last.sim, Rat(Cardinality(A \cap B), Cardinality(A \cup B)))
            /\ RatEq(last.sim, last.rev)
            /\ (A = B /\ A /= {}) => RatEq(last.sim, Rat(1, 1))

C19_Witness ==
    /\ Compared
    /\ Range(last.a) = Range(last.b)
    /\ Len(last.a) = 3
    /\ Len(last.b) = 2
    /\ last.a[1] = last.a[2]
    /\ last.a[3] = last.b[1]
    /\ RatEq(last.sim, Rat(1, 1))

----------------------------------------------------------------------------
(* Items table: what an upsert changes *)

Upserted == last.op = "upsert"

\* the columns the claim calls mutable, and the identity and descriptive ones
MutableColumns == {"Score", "Comments", "CollectedAt", "Tags", "Extra"}

FixedColumns ==
    {"ID", "Source", "ExternalID", "Title", "URL", "Description", "Author", "PublishedAt"}

\* C20: re-upserting an item whose ID is already stored changes only the
\* row's score, comments, collected_at, tags and extra; id, source,
\* external_id, title, url, description, author and published_at keep the
\* values of the first insert; no row is added and no other row changes.
C20_ReupsertKeepsIdentity ==
    Upserted /\ ~last.err /\ last.item.ID \in DOMAIN last.before =>
        /\ DOMAIN dbItems = DOMAIN last.before
        /\ \A id \in DOMAIN dbItems \ {last.item.ID} : dbItems[id] = last.before[id]
        /\ DOMAIN dbItems[last.item.ID] = MutableColumns \cup FixedColumns
        /\ \A c \in FixedColumns :
              dbItems[last.item.ID][c] = last.before[last.item.ID][c]
        /\ \A c \in MutableColumns : dbItems[last.item.ID][c] = last.item[c]

C20_Witness ==
    /\ Upserted
    /\ ~last.err
    /\ last.item.ID \in DOMAIN last.before
    /\ Cardinality(DOMAIN dbItems) = 2
    /\ \A c \in (MutableColumns \cup FixedColumns) \ {"ID", "Source", "ExternalID"} :
          last.item[c] /= last.before[last.item.ID][c]
    /\ dbItems[last.item.ID].Title = "GPT-5 by OpenAI"
    /\ dbItems[last.item.ID].Comments = 7

----------------------------------------------------------------------------
(* Item identity *)

\* C21 as claimed: a collected item with the source and the external id of
\* a stored row carries that row's ID, and storing a collected item never
\* fails on UNIQUE(source, external_id).
C21_IDFollowsSourceAndExternalID ==
    last.op = "entry" =>
        /\ ~last.err
        /\ \A id \in DOMAIN last.before :
              (/\ last.before[id].Source = last.item.Source
               /\ last.before[id].ExternalID = last.item.ExternalID)
              => id = last.item.ID

----------------------------------------------------------------------------
(* Topic of a cluster *)

\* the input position of a cluster member
PositionOf(item) == CHOOSE i \in 1..Len(cItems) : cItems[i].ID = item.ID

\* the input positions of the members of cluster c
MembersOf(c) == {PositionOf(cClusters[c].Items[p]) : p \in 1..Len(cClusters[c].Items)}

\* the first input position among the members of the highest raw score
TopMember(c) ==
    CHOOSE i \in MembersOf(c) :
        \A j \in MembersOf(c) :
            \/ cItems[j].Score < cItems[i].Score
            \/ cItems[j].Score = cItems[i].Score /\ i <= j

\* C22: the topic of every cluster is the title of its member of the highest
\* raw score, and of the first such member in input order when several
\* share that score.
C22_TopicIsFirstTopScoredTitle ==
    cDone =>
        \A c \in 1..Len(cClusters) : cClusters[c].Topic = cItems[TopMember(c)].Title

C22_Witness ==
    /\ cDone
    /\ \E c \in 1..Len(cClusters) :
          /\ Len(cClusters[c].Items) = 3
          /\ \E i, j \in MembersOf(c) :
                /\ i < j
                /\ cItems[i].Score = cItems[j].Score
                /\ cItems[i].Title /= cItems[j].Title
                /\ \A m \in MembersOf(c) : cItems[m].Score <= cItems[i].Score
                /\ \E m \in MembersOf(c) : m < i /\ cItems[m].Score < cItems[i].Score
                /\ cClusters[c].Topic = cItems[i].Title

----------------------------------------------------------------------------
(* HackerNews.Collect *)

\* the goroutines whose fetchItem call is in flight
InFlight == {g \in DOMAIN pc : pc[g] = "fetch"}

\* the number of places of list l that hold story g
CountIn(l, g) == Cardinality({k \in 1..Len(l) : l[k] = g})

\* C23: never more than 10 item fetches are in flight; a goroutine appends
\* to the shared list only while it holds the mutex, which one goroutine
\* holds at a time; Collect returns only after every goroutine has finished,
\* and the list it returns holds every accepted story exactly once and no
\* other story.
C23_BoundedFetchesAndCompleteResult ==
    /\ Cardinality(InFlight) <= 10
    /\ \A g \in Stories : pc[g] = "append" => mem.mu = g
    /\ Cardinality({g \in Stories : pc[g] = "append"}) <= 1
    /\ pc[0] = "returned" =>
          /\ \A g \in Stories : pc[g] = "done"
          /\ \A g \in Stories :
                CountIn(mem.returned[1], g) = IF g \in AcceptedStories THEN 1 ELSE 0

C23_Witness ==
    /\ pc[0] = "returned"
    /\ mem.returned[1] = <<MaxStories, 1>>

\* ten fetches are in flight and an eleventh goroutine waits for a slot
C23_FullWitness ==
    /\ Cardinality(InFlight) = 10
    /\ \E g \in Stories : pc[g] = "sem"

----------------------------------------------------------------------------
(* Alert threshold *)

\* the alert threshold under the configuration
AlertThreshold == IF cfg.minScore = 0 THEN 30 ELSE cfg.minScore

----------------------------------------------------------------------------
(* Trends across detection cycles *)

\* the rows of the table before the cycle that trend t repeats: same topic,
\* same items
EarlierRowsOf(t) ==
    {row \in last.before : row.Topic = t.Topic /\ row.ItemIDs = t.ItemIDs}

\* C26: every trend a Detect call writes has an identifier no row of the
\* table had before the cycle, alerted = false and first_seen = last_updated
\* = the time of the cycle, also when the table held an alerted row of the
\* same topic and items; such a trend is broadcast again when its score
\* reaches the threshold and a notifier is configured.
C26_NoAlertStateAcrossCycles ==
    Detected =>
        /\ \A k \in 1..Len(last.trends) :
              /\ \A row \in last.before : row.ID < last.trends[k].ID
              /\ ~last.trends[k].Alerted
              /\ last.trends[k].FirstSeen = now
              /\ last.trends[k].LastUpdated = now
              /\ (/\ Len(cfg.notifiers) > 0
                  /\ RatGeq(last.trends[k].Score, RatInt(AlertThreshold)))
                 => SendsFor(last.trends[k].ID) /= {}
        /\ \A row \in dbTrends \ last.before :
              /\ \A old \in last.before : old.ID < row.ID
              /\ row.FirstSeen = now
              /\ row.Alerted => row.ID \in last.marked

C26_Witness ==
    /\ Detected
    /\ \E k \in 1..Len(last.trends) :
          /\ \E row \in EarlierRowsOf(last.trends[k]) : row.Alerted
          /\ SendsFor(last.trends[k].ID) /= {}
          /\ last.trends[k].ID \in last.marked

----------------------------------------------------------------------------
(* The daemon's goroutines *)

\* the goroutines that are inside Engine.Detect
DetectsInFlight == {g \in DOMAIN pc : pc[g] \in DetectLabels}

\* C24: in the running daemon at most one Detect call is in flight at any
\* time, and it is the scheduler's: the goroutine of a request never is
\* inside Detect, and while the scheduler is inside Detect it is not
\* collecting.
C24_OneDetectInFlight ==
    "sched" \in DOMAIN pc =>
        /\ Cardinality(DetectsInFlight) <= 1
        /\ DetectsInFlight \subseteq {"sched"}

\* the scheduler is between two upserts of its second cycle while the server
\* has just answered a request
C24_Witness ==
    /\ "sched" \in DOMAIN pc
    /\ pc.sched = "upsert"
    /\ mem.k = 2
    /\ mem.before /= {}
    /\ pc.main = "serving"
    /\ last.op = "trends"

\* C27: a ListTrends query that runs while a detection cycle is under way
\* returns the complete trend set the table held before the cycle or the
\* complete set the cycle leaves, never an empty or partly regenerated set.
C27_ReadersSeeWholeCycles ==
    last.op = "detected" =>
        \A rows \in last.reads : rows = last.before \/ rows = last.after

\* C28: once SIGINT or SIGTERM has cancelled the daemon's context, runDaemon
\* eventually returns.
C28_DaemonStopsAfterSignal ==
    ("sched" \in DOMAIN pc /\ mem.cancelled) ~> (pc.main = "returned")

\* the scheduler's half of C28: once the context is cancelled the scheduler
\* loop eventually returns, unless the process has ended before
C28_SchedulerStopsAfterSignal ==
    ("sched" \in DOMAIN pc /\ mem.cancelled)
        ~> (pc.sched = "stopped" \/ pc.main = "returned")

----------------------------------------------------------------------------
(* The Reddit collector's token *)

\* C29: every read and write of r.token and r.tokenExpiry happens while the
\* accessing goroutine holds r.mu, and fetchSubreddit never reads the token
\* while another goroutine's authenticate is storing it.
C29_TokenOnlyUnderLock ==
    last.op = "token" =>
        /\ last.holder = last.by
        /\ last.storing \in {"none", last.by}

\* fetchSubreddit of one goroutine reads r.token while authenticate of the
\* other is storing a new one
C29_RaceReached ==
    /\ last.op = "token"
    /\ last.fn = "fetchSubreddit"
    /\ last.storing \notin {"none", last.by}
    /\ last.value = "torn"

\* the accesses inside authenticate are made under the lock
C29_AuthenticateUnderLock ==
    (last.op = "token" /\ last.fn = "authenticate") => last.holder = last.by

----------------------------------------------------------------------------
(* Manager.Broadcast *)

\* C30: Broadcast calls Send on every registered notifier exactly once and in
\* registration order, also after a Send that failed; it returns nil exactly
\* when every Send succeeded, and else an error that names each notifier
\* whose Send failed (and no other).
C30_BroadcastSendsToAllAndJoinsErrors ==
    last.op = "broadcast" =>
        /\ Len(last.sends) = Len(cfg.notifiers)
        /\ \A k \in 1..Len(cfg.notifiers) :
              /\ last.sends[k].notifier = cfg.notifiers[k]
              /\ last.sends[k].trend = last.trend
              /\ last.sends[k].ok <=> cfg.notifiers[k] \notin last.down
        /\ ~last.err <=> \A k \in 1..Len(last.sends) : last.sends[k].ok
        /\ ~last.err <=> last.errs = <<>>
        /\ {last.errs[k].name : k \in 1..Len(last.errs)} = last.down
        /\ Len(last.errs) = Cardinality(last.down)

\* three notifiers of which the first fails: the two others are still called
\* and the error names the first alone
C30_Witness ==
    /\ last.op = "broadcast"
    /\ Len(cfg.notifiers) = 3
    /\ last.down = {cfg.notifiers[1]}
    /\ last.sends[3].ok
    /\ last.err
    /\ Len(last.errs) = 1

====
